---------------------------- MODULE Spec2Model ----------------------------
(***************************************************************************)
(* Disaster / risk map front-end: the world map's viewport transform       *)
(* engine and highlight sequence, the Japan prefecture map's click         *)
(* animations, and the risk layer's decay densification.                   *)
(*                                                                         *)
(* Numbers.  Pixel coordinates are integers.  Scales are fixed-point:      *)
(* the world map's k in units of 1/4, the Japan map's zoom level in        *)
(* units of 1/8.   Animation frames are sampled at progress 1/2 and 1;     *)
(* a quotient that is not an integer is rounded down.  Risk values are     *)
(* exact rationals [n, d] in lowest terms; decay rates are tenths.         *)
(***************************************************************************)
EXTENDS Integers, Sequences, FiniteSets, TLC

VARIABLES
  (* risk layer (densification) *)
  riskRowsSparse,   \* the rows of the risk CSV, in file order
  riskRows,         \* denseRows after loadAll
  riskByPrefYear,   \* denseMap after loadAll: key -> row
  yearsDomain,      \* [yMin, yMax]
  riskLoaded,       \* loadAll has run
  shadeYear,        \* window.currentYear set by shadePrefectures
  shadeFill,        \* prefecture path -> fill painted by shadePrefectures
  (* world map *)
  wLoaded,          \* drawMap has run and its handlers are registered
  prefersReduced,   \* the prefers-reduced-motion media query matches
  popColumns,       \* the loaded CSV has POP.raw.YYYY columns
  wZoom,            \* d3.zoomTransform(svg.node()): the transform d3 keeps
  wG,               \* the transform attribute rendered on the map group
  wSvgTr,           \* a d3 transition of the svg to the identity is pending
  wAnims,           \* the scripted animations whose callbacks or timers are live
  wStarted,         \* scripted animations started so far
  wGestures,        \* wheel, drag and slider inputs so far
  lastClickedFeature,
  currentYear,
  fill,             \* country -> fill attribute
  prevFill,         \* country -> data-prev-fill attribute
  fillTr,           \* country -> the d3 transition of its fill
  wLast,            \* the last event handled (history)
  wZoomedIn,        \* the feature whose zoom-in finished last, no click since (history)
  (* Japan prefecture map *)
  jLoaded,          \* renderJapanMap has run and its handlers are registered
  jT,               \* the d3 transform of the svg, rendered as is on the map group
  isAnimating,
  currentAnimationId,   \* the pending frame callback with its closure, or NoAnimation
  lastClickedPrefecture,
  currentZoomLevel,
  currentViewCenter,
  jIndicators,      \* the animation whose .zoom-indicator elements are in the DOM, or 0
  jTimers,          \* pending timeouts that remove every .zoom-indicator
  jClicks,          \* prefecture clicks so far
  jGestures,        \* wheel and drag gestures so far
  jFill,            \* prefecture -> fill attribute
  jFillTr,          \* prefectures whose fill is in transition back to grey
  jLast,            \* the last event handled (history)
  jZoomedIn,        \* the prefecture whose zoom-in finished last, no click since (history)
  (* clampTransform as a pure function *)
  clampArg,         \* the transform handed to clampTransform
  clampRes,         \* the successive results of applying it
  (* world map: timeline, legend swatches and point layer *)
  stored,           \* the localStorage entry 'swatchState'
  storedAtLoad,     \* the entry as drawMap read it (history)
  swatchState,      \* the value drawMap parsed from it, as the toggles changed it
  drawn,            \* drawMap ran to its end ("ok") or left through its catch ("failed")
  toggledAttr,      \* the swatches whose data-toggled attribute is '1'
  isPlaying,
  playTimer,        \* the interval's id, or 0 for null
  playIdx,          \* idx, the interval callback's position in years
  sliderDisabled,   \* the disabled property of #year-slider
  points,           \* the data bound to the circle.event-dot elements
  tClicks,          \* play and swatch clicks so far
  tTicks,           \* interval callbacks run since playback started (history)
  tLast,            \* the last timeline event and the layer before it (history)
  (* world map: what a run is observed for *)
  wBudget,          \* the scripted animations the run may start
  wHist,            \* the fills saved when a zoom-in was cancelled; the stage of a
                    \* reset animation that nothing else interferes with (history)
  (* Japan page: start of the risk layer and of the prefecture tooltip *)
  pathsPresent,     \* path.prefecture elements are in the document
  loadAttempts,     \* calls of loadAll so far
  attachAttempts,
  attachPending,    \* a call of attachPrefectureHandlers is due (the first, or a timeout)
  attached,         \* the tooltip listeners are on the prefecture paths
  waitState,        \* init: "loading", "loadFailed", "polling", "resolved", "rejected"
  waitElapsed,      \* performance.now() - t0 at the last tick of waitForMapReady
  waitPolls,        \* ticks of waitForMapReady so far (history)
  (* Japan page: disaster timeline *)
  parsesInput,      \* slider.oninput stores parseInt(this.value) (else this.value itself)
  yearVar,          \* year
  sliderValue,      \* the value given last to the range element myRange
  autoplay,
  chains,           \* the pending timeouts of nestedAutoplay, each with its forward flag
  rendered,         \* the argument of the last renderDisasterPoints
  dClicks,          \* inputs on the timeline controls so far
  dLast,            \* the last handler that ran (history)
  (* Japan page: risk layer and year slider *)
  sliderYear,       \* YEAR_SLIDER.value as the risk layer reads it (NoSlider: no such element)
  lastYear,         \* lastYear of hookYearChanges
  shadedYear,       \* window.currentYear: the year of the last shadePrefectures (NoSlider: none yet)
  hooked,           \* init has drawn and called hookYearChanges
  hkInputs,         \* changes of the slider so far
  hkLast,           \* the last step (history)
  (* Japan page: prefecture tooltip *)
  bodyDisabled,     \* body carries the class pref-tooltip-disabled
  tipDisplay,       \* the display of #prefecture-tooltip
  tipCount,         \* the number of disasters in its content (0: none written or emptied)
  tipPos,           \* where the move listener put it
  prefLastPointer,  \* window.__prefLastPointer is not null
  prefHoveredEl,    \* window.__prefHoveredEl
  tipWasShown,      \* the tooltip has been displayed (history)
  tipSteps,         \* events so far
  tipLast,          \* the last listener that ran (history)
  (* point layers: data joins *)
  renderer,         \* which renderer draws the layer
  layer,            \* the circles of the point layer in document order: the row bound to each, and whether it is fading out
  joinData,         \* the rows the last render let through its filter
  renders,          \* renders so far
  joinLast          \* the last step (history)

riskVars  == <<riskRowsSparse, riskRows, riskByPrefYear, yearsDomain,
               riskLoaded, shadeYear, shadeFill>>
clampVars == <<clampArg, clampRes>>
worldVars == <<wLoaded, prefersReduced, popColumns, wZoom, wG, wSvgTr, wAnims, wStarted,
               wGestures, lastClickedFeature, currentYear, fill, prevFill,
               fillTr, wLast, wZoomedIn>>
japanVars == <<jLoaded, jT, isAnimating, currentAnimationId, lastClickedPrefecture,
               currentZoomLevel, currentViewCenter, jIndicators, jTimers, jClicks,
               jGestures, jFill, jFillTr, jLast, jZoomedIn>>
timelineVars == <<stored, storedAtLoad, swatchState, drawn, toggledAttr, isPlaying, playTimer, playIdx,
                  sliderDisabled, points, tClicks, tTicks, tLast>>
obsVars   == <<wBudget, wHist>>
startVars == <<pathsPresent, loadAttempts, attachAttempts, attachPending, attached,
               waitState, waitElapsed, waitPolls>>
dtVars    == <<parsesInput, yearVar, sliderValue, autoplay, chains, rendered, dClicks, dLast>>
hookVars  == <<sliderYear, lastYear, shadedYear, hooked, hkInputs, hkLast>>
tipVars   == <<bodyDisabled, tipDisplay, tipCount, tipPos, prefLastPointer, prefHoveredEl, tipWasShown, tipSteps, tipLast>>
joinVars  == <<renderer, layer, joinData, renders, joinLast>>
vars      == <<riskVars, clampVars, worldVars, japanVars, timelineVars, obsVars, startVars, dtVars, hookVars, tipVars, joinVars>>
notWorld  == <<riskVars, clampVars, japanVars, timelineVars, startVars, dtVars, hookVars, tipVars, joinVars>>
notJapan  == <<riskVars, clampVars, worldVars, timelineVars, obsVars, startVars, dtVars, hookVars, tipVars, joinVars>>
notRisk   == <<clampVars, worldVars, japanVars, timelineVars, obsVars, startVars, dtVars, hookVars, tipVars, joinVars>>
notClamp  == <<riskVars, worldVars, japanVars, timelineVars, obsVars, startVars, dtVars, hookVars, tipVars, joinVars>>
notStart  == <<riskVars, clampVars, worldVars, japanVars, timelineVars, obsVars, dtVars, hookVars, tipVars, joinVars>>
notDt     == <<riskVars, clampVars, worldVars, japanVars, timelineVars, obsVars, startVars, hookVars, tipVars, joinVars>>
notHook   == <<riskVars, clampVars, worldVars, japanVars, timelineVars, obsVars, startVars, dtVars, tipVars, joinVars>>
notTip    == <<riskVars, clampVars, worldVars, japanVars, timelineVars, obsVars, startVars, dtVars, hookVars, joinVars>>
notJoin   == <<riskVars, clampVars, worldVars, japanVars, timelineVars, obsVars, startVars, dtVars, hookVars, tipVars>>

-----------------------------------------------------------------------------
(* Small arithmetic helpers *)

Min(a, b) == IF a <= b THEN a ELSE b
Max(a, b) == IF a >= b THEN a ELSE b

RECURSIVE Pow(_, _)
Pow(b, e) == IF e = 0 THEN 1 ELSE b * Pow(b, e - 1)

RECURSIVE Gcd(_, _)
Gcd(a, b) == IF b = 0 THEN a ELSE Gcd(b, a % b)

(* A non-negative rational in lowest terms *)
Rat(n, d) == LET g == Gcd(n, d) IN IF n = 0 THEN <<0, 1>> ELSE <<n \div g, d \div g>>


-----------------------------------------------------------------------------
(* World map: constants of the viewport *)

width        == 960
height       == 600
VIEW_PADDING == 200
minK         == 1
maxK         == 8

(* A scale of n, and of n/4, in the fixed-point unit of the world map *)
K(n)     == 4 * n
KQ(n)    == n
(* s * k for a pixel length s and a fixed-point scale k *)
Scaled(s, k) == (s * k) \div K(1)

(* clampTransform with the excess over the upper bound halved instead of cut *)
clampSoft(t) ==
  LET k    == t.k
      minX == Min(0, width - Scaled(width, k)) - VIEW_PADDING
      maxX == VIEW_PADDING
      minY == Min(0, height - Scaled(height, k)) - VIEW_PADDING
      maxY == VIEW_PADDING
      x    == Max(minX, IF t.x > maxX THEN maxX + (t.x - maxX) \div 2 ELSE t.x)
      y    == Max(minY, IF t.y > maxY THEN maxY + (t.y - maxY) \div 2 ELSE t.y)
  IN  [x |-> x, y |-> y, k |-> k]

clampTransform(t) ==
  LET k    == t.k
      minX == Min(0, width - Scaled(width, k)) - VIEW_PADDING
      maxX == VIEW_PADDING
      minY == Min(0, height - Scaled(height, k)) - VIEW_PADDING
      maxY == VIEW_PADDING
      x    == Max(minX, Min(maxX, t.x))
      y    == Max(minY, Min(maxY, t.y))
  IN  [x |-> x, y |-> y, k |-> k]

(* Transforms handed to clampTransform as a pure function: inside, on and
   beyond every bound, at scales below, inside and above [minK, maxK] *)
ClampXs == {-9000, -7921, -7920, -2121, -2120, -201, -200, 0, 37, 200, 201, 640, 5000}
ClampYs == {-5000, -4401, -4400, -1400, -200, -199, 0, 200, 203, 900}
ClampKs == {KQ(2), K(1), KQ(5), K(2), K(3), K(8), K(10)}
ClampInputs == [x : ClampXs, y : ClampYs, k : ClampKs]

InitClamp ==
  /\ clampArg \in ClampInputs
  /\ clampRes = <<>>

IdleClamp ==
  /\ clampArg = [x |-> 0, y |-> 0, k |-> K(1)]
  /\ clampRes = <<>>

(* clampTransform applied to the argument, then to its own result *)
ApplyClamp ==
  /\ Len(clampRes) < 2
  /\ clampRes' = Append(clampRes,
                   clampTransform(IF clampRes = <<>> THEN clampArg
                                  ELSE clampRes[Len(clampRes)]))
  /\ UNCHANGED clampArg
  /\ UNCHANGED notClamp

-----------------------------------------------------------------------------
(* Risk layer: decay carry-forward densification *)

(* A CSV cell: a number, an empty cell, or a column the row does not have *)
NumCell(n) == [kind |-> "num", v |-> n]
EmptyCell  == [kind |-> "empty", v |-> 0]
AbsentCell == [kind |-> "absent", v |-> 0]

(* Unary plus: +"" is 0, +undefined is NaN *)
ToNumber(c) ==
  IF c.kind = "absent" THEN [finite |-> FALSE, v |-> 0]
  ELSE [finite |-> TRUE, v |-> c.v]

(* decayForward with the factor 1 + a *)
decayForwardGrowing(prev, years, alpha) ==
  IF prev <= 0 THEN Rat(0, 1)
  ELSE LET a  == IF alpha.finite THEN Max(0, Min(10, alpha.v)) ELSE 1
           dt == Max(1, IF years = 0 THEN 1 ELSE years)
       IN  Rat(prev * Pow(10 + a, dt), Pow(10, dt))

(* prev a number, alpha a JS number in tenths; the result is a rational *)
decayForward(prev, years, alpha) ==
  IF prev <= 0 THEN Rat(0, 1)
  ELSE LET a  == IF alpha.finite THEN Max(0, Min(10, alpha.v)) ELSE 1
           dt == Max(1, IF years = 0 THEN 1 ELSE years)
       IN  Rat(prev * Pow(10 - a, dt), Pow(10, dt))

(* `${pref}::${year}` *)
RiskKey(pref, y) == pref \o "::" \o ToString(y)

MapSet(m, k, v) == [x \in (DOMAIN m) \cup {k} |-> IF x = k THEN v ELSE m[x]]
EmptyMap == [x \in {} |-> 0]

(* d3.group keys: the prefectures in order of first appearance *)
RECURSIVE GroupKeys(_, _)
GroupKeys(rows, seen) ==
  IF rows = <<>> THEN <<>>
  ELSE LET p == Head(rows).prefecture_norm
       IN  IF p \in seen THEN GroupKeys(Tail(rows), seen)
           ELSE <<p>> \o GroupKeys(Tail(rows), seen \cup {p})

(* rows.sort((a, b) => a.year - b.year): stable *)
RECURSIVE InsertByYear(_, _)
InsertByYear(sorted, r) ==
  IF sorted = <<>> THEN <<r>>
  ELSE IF sorted[Len(sorted)].year <= r.year THEN Append(sorted, r)
  ELSE Append(InsertByYear(SubSeq(sorted, 1, Len(sorted) - 1), r), sorted[Len(sorted)])

RECURSIVE SortByYear(_)
SortByYear(rows) ==
  IF rows = <<>> THEN <<>>
  ELSE InsertByYear(SortByYear(SubSeq(rows, 1, Len(rows) - 1)), rows[Len(rows)])

(* the decay_alpha of the latest row whose +decay_alpha is finite, else 0.1 *)
RECURSIVE PickAlpha(_, _)
PickAlpha(sorted, i) ==
  IF i = 0 THEN [finite |-> TRUE, v |-> 1]
  ELSE LET cand == ToNumber(sorted[i].decay_alpha)
       IN  IF cand.finite THEN cand ELSE PickAlpha(sorted, i - 1)

(* new Map(sorted.map(r => [r.year, r])).get(y): the last row of year y *)
RowsByYearGet(sorted, y) ==
  LET idx == {i \in 1..Len(sorted) : sorted[i].year = y}
  IN  IF idx = {} THEN [found |-> FALSE, row |-> 0]
      ELSE [found |-> TRUE, row |-> sorted[CHOOSE i \in idx : \A j \in idx : j <= i]]

DenseReal(src) ==
  [prefecture_norm |-> src.prefecture_norm, year |-> src.year,
   risk_final |-> Rat(src.risk_final, 1), decay_alpha |-> ToNumber(src.decay_alpha),
   synthetic |-> FALSE]

DenseSynthetic(pref, y, risk, alpha) ==
  [prefecture_norm |-> pref, year |-> y, risk_final |-> risk,
   decay_alpha |-> alpha, synthetic |-> TRUE]

(* the year loop of densifyRiskRows for one prefecture, from year y on *)
RECURSIVE DensifyYears(_, _, _, _, _, _, _, _)
DensifyYears(pref, sorted, alpha, y, yMax, lastYearWithRow, lastRisk, acc) ==
  IF y > yMax THEN acc
  ELSE LET k   == RiskKey(pref, y)
           src == RowsByYearGet(sorted, y)
       IN  IF src.found
           THEN DensifyYears(pref, sorted, alpha, y + 1, yMax,
                             [set |-> TRUE, y |-> y], src.row.risk_final,
                             [denseRows |-> Append(acc.denseRows, DenseReal(src.row)),
                              denseMap  |-> MapSet(acc.denseMap, k, DenseReal(src.row))])
           ELSE LET dt  == IF lastYearWithRow.set THEN y - lastYearWithRow.y ELSE 1
                    syn == DenseSynthetic(pref, y, decayForward(lastRisk, dt, alpha), alpha)
                IN  DensifyYears(pref, sorted, alpha, y + 1, yMax,
                                 lastYearWithRow, lastRisk,
                                 [denseRows |-> Append(acc.denseRows, syn),
                                  denseMap  |-> MapSet(acc.denseMap, k, syn)])

(* the prefecture loop with lastRisk seeded 50 instead of 0 *)
RECURSIVE DensifyPrefsSeeded(_, _, _, _)
DensifyPrefsSeeded(prefs, rows, dom, acc) ==
  IF prefs = <<>> THEN acc
  ELSE LET pref   == Head(prefs)
           sorted == SortByYear(SelectSeq(rows, LAMBDA r : r.prefecture_norm = pref))
           alpha  == PickAlpha(sorted, Len(sorted))
       IN  DensifyPrefsSeeded(Tail(prefs), rows, dom,
             DensifyYears(pref, sorted, alpha, dom[1], dom[2],
                          [set |-> FALSE, y |-> 0], 50, acc))

RECURSIVE DensifyPrefs(_, _, _, _)
DensifyPrefs(prefs, rows, dom, acc) ==
  IF prefs = <<>> THEN acc
  ELSE LET pref   == Head(prefs)
           sorted == SortByYear(SelectSeq(rows, LAMBDA r : r.prefecture_norm = pref))
           alpha  == PickAlpha(sorted, Len(sorted))
       IN  DensifyPrefs(Tail(prefs), rows, dom,
             DensifyYears(pref, sorted, alpha, dom[1], dom[2],
                          [set |-> FALSE, y |-> 0], 0, acc))

(* densifyRiskRows with the year loop stopping one year early *)
densifyShort(riskRowsLocal, dom) ==
  DensifyPrefs(GroupKeys(riskRowsLocal, {}), riskRowsLocal, <<dom[1], dom[2] - 1>>,
               [denseRows |-> <<>>, denseMap |-> EmptyMap])

densifyRiskRows(riskRowsLocal, dom) ==
  DensifyPrefs(GroupKeys(riskRowsLocal, {}), riskRowsLocal, dom,
               [denseRows |-> <<>>, denseMap |-> EmptyMap])

SetMin(S) == CHOOSE x \in S : \A y \in S : x <= y
SetMax(S) == CHOOSE x \in S : \A y \in S : x >= y

(* [d3.min(yearsSparse) || 1960, d3.max(yearsSparse) || 2018] *)
YearsDomainOf(rows) ==
  LET ys == {rows[i].year : i \in 1..Len(rows)}
      lo == IF ys = {} THEN 0 ELSE SetMin(ys)
      hi == IF ys = {} THEN 0 ELSE SetMax(ys)
  IN  <<IF lo = 0 THEN 1960 ELSE lo, IF hi = 0 THEN 2018 ELSE hi>>

(* The rows a risk CSV is drawn from *)
RiskRow(p, y, r, a) == [prefecture_norm |-> p, year |-> y, risk_final |-> r, decay_alpha |-> a]
RiskRowInputs ==
  { RiskRow("Tokyo", 1965, 100, NumCell(1)),
    RiskRow("Tokyo", 1965, 100, AbsentCell),
    RiskRow("Tokyo", 1965, 60, NumCell(5)),
    RiskRow("Tokyo", 1970, 80, AbsentCell),
    RiskRow("Tokyo", 1970, 80, EmptyCell),
    RiskRow("Tokyo", 1970, 0, NumCell(1)),
    RiskRow("Tokyo", 1968, 40, NumCell(2)),
    RiskRow("Osaka", 1972, 100, AbsentCell),
    RiskRow("Osaka", 1966, 0, NumCell(1)),
    RiskRow("Osaka", 1969, 50, EmptyCell),
    RiskRow("", 1965, 70, NumCell(1)) }

MaxRows == 3

RECURSIVE SeqsUpTo(_, _)
SeqsUpTo(S, n) ==
  IF n = 0 THEN {<<>>}
  ELSE LET shorter == SeqsUpTo(S, n - 1)
       IN  shorter \cup {Append(s, x) : s \in {t \in shorter : Len(t) = n - 1}, x \in S}

(* The prefectures drawn on the map, by the norm stamped on the feature *)
MapPrefNorms == {"Tokyo", "Osaka", "Kyoto"}
NoDataFill == [hit |-> FALSE, val |-> Rat(0, 1)]

(* The prefecture paths of the map.  A path with a name is called by the
   norm init stamps on it; "islet" has none of the candidate properties,
   "blank" has name: "" *)
UnnamedPaths == {"islet", "blank"}
PrefPaths == MapPrefNorms \cup UnnamedPaths

(* the candidate properties a feature has, in the resolver's order *)
PropsOf(p) ==
  IF p = "islet" THEN <<>>
  ELSE IF p = "blank" THEN <<"">>
  ELSE IF p = "Tokyo" THEN <<"Tokyo-to", "Tokyo">>
  ELSE IF p = "Osaka" THEN <<"Osaka-fu">>
  ELSE <<"Kyoto-fu">>

(* cleanName, on the names of the map: trimmed and in lower case *)
cleanName(s) ==
  IF s = "Tokyo-to" THEN "tokyo-to"
  ELSE IF s = "Tokyo" THEN "tokyo"
  ELSE IF s = "Osaka-fu" THEN "osaka-fu"
  ELSE IF s = "Kyoto-fu" THEN "kyoto-fu"
  ELSE s

(* base.replace(/[-\s]/g, "") *)
Dehyphenate(s) ==
  IF s = "tokyo-to" THEN "tokyoto"
  ELSE IF s = "osaka-fu" THEN "osakafu"
  ELSE IF s = "kyoto-fu" THEN "kyotofu"
  ELSE s

(* the dictionary loadAll builds from a key CSV with the rows
   (Tokyo-to, Tokyo) and (Osaka-fu, Osaka) *)
CANON2NORM ==
  [v \in {"tokyo-to", "tokyoto", "tokyo", "osaka-fu", "osakafu", "osaka"} |->
     IF v \in {"tokyo-to", "tokyoto", "tokyo"} THEN "Tokyo" ELSE "Osaka"]

(* first.replace(/[-\s](ken|fu|to|do)$/i, "").trim() *)
StripSuffix(s) ==
  IF s = "Tokyo-to" THEN "Tokyo"
  ELSE IF s = "Osaka-fu" THEN "Osaka"
  ELSE IF s = "Kyoto-fu" THEN "Kyoto"
  ELSE s

RECURSIVE Variants(_)
Variants(raws) ==
  IF raws = <<>> THEN <<>>
  ELSE <<cleanName(Head(raws)), Dehyphenate(cleanName(Head(raws)))>> \o Variants(Tail(raws))

RECURSIVE FirstMatch(_)
FirstMatch(variants) ==
  IF variants = <<>> THEN ""
  ELSE IF Head(variants) \in DOMAIN CANON2NORM THEN Head(variants)
  ELSE FirstMatch(Tail(variants))

resolvePrefectureNameFromProps(props) ==
  LET rawCandidates == SelectSeq(props, LAMBDA r : r # "")
  IN  IF rawCandidates = <<>>
      THEN [raw |-> "", cleaned |-> "", norm |-> "", matched |-> FALSE]
      ELSE LET v == FirstMatch(Variants(rawCandidates))
           IN  IF v # ""
               THEN [raw |-> rawCandidates[1], cleaned |-> v,
                     norm |-> CANON2NORM[v], matched |-> TRUE]
               ELSE [raw |-> rawCandidates[1], cleaned |-> cleanName(rawCandidates[1]),
                     norm |-> StripSuffix(rawCandidates[1]), matched |-> FALSE]

(* props.__prefNorm as init stamps it on the path *)
prefNorm(p) ==
  LET r == resolvePrefectureNameFromProps(PropsOf(p))
  IN  IF r.raw = "" /\ r.cleaned = "" THEN "" ELSE r.norm

(* the join of shadePrefectures without its test of the norm *)
JoinUnguarded(norm, year, map) ==
  IF RiskKey(norm, year) \in DOMAIN map
  THEN [hit |-> TRUE, val |-> map[RiskKey(norm, year)].risk_final]
  ELSE NoDataFill

(* the fill shadePrefectures gives a path stamped norm: that of the row
   under norm::year when the norm is not empty and the row is there *)
Join(norm, year, map) ==
  IF norm # "" /\ RiskKey(norm, year) \in DOMAIN map
  THEN [hit |-> TRUE, val |-> map[RiskKey(norm, year)].risk_final]
  ELSE NoDataFill

InitRisk ==
  /\ riskRowsSparse \in SeqsUpTo(RiskRowInputs, MaxRows) \ {<<>>}
  /\ riskRows = <<>>
  /\ riskByPrefYear = EmptyMap
  /\ yearsDomain = <<1960, 2018>>
  /\ riskLoaded = FALSE
  /\ shadeYear = 1960
  /\ shadeFill = [p \in PrefPaths |-> NoDataFill]

IdleRisk ==
  /\ riskRowsSparse = <<>>
  /\ riskRows = <<>>
  /\ riskByPrefYear = EmptyMap
  /\ yearsDomain = <<1960, 2018>>
  /\ riskLoaded = FALSE
  /\ shadeYear = 1960
  /\ shadeFill = [p \in PrefPaths |-> NoDataFill]

(* loadAll: the years domain of the sparse rows, then the dense series *)
LoadAll ==
  /\ ~riskLoaded
  /\ riskRowsSparse # <<>>
  /\ LET dom   == YearsDomainOf(riskRowsSparse)
         dense == densifyRiskRows(riskRowsSparse, dom)
     IN  /\ yearsDomain' = dom
         /\ riskRows' = dense.denseRows
         /\ riskByPrefYear' = dense.denseMap
  /\ riskLoaded' = TRUE
  /\ UNCHANGED <<riskRowsSparse, shadeYear, shadeFill>>
  /\ UNCHANGED notRisk

(* shadePrefectures(year): the join of every prefecture path to the dense map *)
ShadePrefectures(year) ==
  /\ riskLoaded
  /\ shadeYear' = year
  /\ shadeFill' = [p \in PrefPaths |-> Join(prefNorm(p), year, riskByPrefYear)]
  /\ UNCHANGED <<riskRowsSparse, riskRows, riskByPrefYear, yearsDomain, riskLoaded>>
  /\ UNCHANGED notRisk

RiskNext ==
  \/ LoadAll
  \/ \E year \in (yearsDomain[1] - 1)..(yearsDomain[2] + 1) : ShadePrefectures(year)

-----------------------------------------------------------------------------
(* World map: features, geometry of the scripted animations *)

T(x, y, k) == [x |-> x, y |-> y, k |-> k]
Identity   == T(0, 0, K(1))

(* A country feature: path.centroid and the bottom of path.bounds, in map
   coordinates.  "A" zooms unclamped; "B" lies near the lower right corner,
   so that its centred transform is clamped on both axes. *)
Countries == {"A", "B"}
(* "N" is a feature of empty geometry: path.centroid gives NaN, no path
   element of it can carry a fill *)
Features == Countries \cup {"N"}
Feature(f) ==
  IF f = "A" THEN [cx |-> 200, cy |-> 200, bottom |-> 260, finite |-> TRUE]
  ELSE IF f = "B" THEN [cx |-> 920, cy |-> 580, bottom |-> 596, finite |-> TRUE]
  ELSE [cx |-> 0, cy |-> 0, bottom |-> 0, finite |-> FALSE]

Years == {1960, 1961}

(* the fill renderForYear computes for a country: '#eee' without a value
   in the column POP.raw.<year>, else the colour of the value's decile *)
Choropleth(c, year) ==
  IF ~popColumns THEN "#eee"
  ELSE IF c = "A" THEN (IF year = 1960 THEN "bin3" ELSE "bin7")
  ELSE (IF year = 1960 THEN "#eee" ELSE "bin2")

ORANGE   == "#ff7f0e"
NullAttr == "<null>"
NoTr     == [state |-> "none", target |-> "", active |-> FALSE]

(* the transform zoomToFeature asks d3 to set: none for a non-finite centroid *)
CentredOn(f, targetK) ==
  clampTransform(T(width \div 2 - Scaled(Feature(f).cx, targetK),
                   height \div 2 - Scaled(Feature(f).cy, targetK), targetK))

(* the d3 transform after zoomToFeature(f, targetK), from the transform cur *)
zoomToFeature(f, targetK, cur) ==
  IF ~Feature(f).finite THEN cur ELSE CentredOn(f, targetK)

(* d3.easeCubicInOut at progress h/2, as a numerator over 2 *)
easeCubicInOut(h) == IF h <= 1 THEN h * h * h ELSE (h - 2) * (h - 2) * (h - 2) + 2

(* The control points of the bulging cubic from (ax, ay) to (bx, by), times
   20: mid -/+ 0.25 d + 0.6 perp, perp turned to the wanted sign of its y *)
Controls(ax, ay, bx, by, wantPerpPositive) ==
  LET dx   == bx - ax
      dy   == by - ay
      flip == IF wantPerpPositive THEN dx < 0 ELSE dx > 0
      px   == IF flip THEN dy ELSE -dy
      py   == IF flip THEN -dx ELSE dx
  IN  [c1x |-> 10 * (ax + bx) - 5 * dx + 12 * px,
       c1y |-> 10 * (ay + by) - 5 * dy + 12 * py,
       c2x |-> 10 * (ax + bx) + 5 * dx + 12 * px,
       c2y |-> 10 * (ay + by) + 5 * dy + 12 * py]

(* cubicAt at t = n/2 for one coordinate; c1, c2 are times 20 *)
cubicAt(n, p0, c1, c2, p3) ==
  LET u == 2 - n
  IN  (20 * u * u * u * p0 + 3 * u * u * n * c1 + 3 * u * n * n * c2
        + 20 * n * n * n * p3) \div 160

(* step of animateZoomToFeature at progress h/2 with the centroid left where
   the current transform puts it (curT.x not taken off) *)
zoomInStepNoOrigin(f, curT, targetK, h) ==
  LET ft  == Feature(f)
      sx  == width \div 2
      sy  == height \div 2
      fx  == curT.x + Scaled(ft.cx, curT.k)
      fy  == curT.y + Scaled(ft.cy, curT.k)
      cs  == Controls(sx, sy, fx, fy, curT.y + Scaled(ft.bottom, curT.k) <= height \div 2)
      et  == easeCubicInOut(h)
      ptx == cubicAt(et, sx, cs.c1x, cs.c2x, fx)
      pty == cubicAt(et, sy, cs.c1y, cs.c2y, fy)
      kView == curT.k + ((targetK - curT.k) * et) \div 2
  IN  clampTransform(T(width \div 2 - (kView * ptx) \div curT.k,
                       height \div 2 - (kView * pty) \div curT.k, kView))

(* the transform step(now) of animateZoomToFeature sets at progress h/2 *)
zoomInStep(f, curT, targetK, h) ==
  LET ft  == Feature(f)
      sx  == width \div 2
      sy  == height \div 2
      fx  == curT.x + Scaled(ft.cx, curT.k)
      fy  == curT.y + Scaled(ft.cy, curT.k)
      cs  == Controls(sx, sy, fx, fy, curT.y + Scaled(ft.bottom, curT.k) <= height \div 2)
      et  == easeCubicInOut(h)
      ptx == cubicAt(et, sx, cs.c1x, cs.c2x, fx)
      pty == cubicAt(et, sy, cs.c1y, cs.c2y, fy)
      kView == curT.k + ((targetK - curT.k) * et) \div 2
  IN  clampTransform(T(width \div 2 - (kView * (ptx - curT.x)) \div curT.k,
                       height \div 2 - (kView * (pty - curT.y)) \div curT.k, kView))

(* the transform step(now) of animateResetToGlobal sets at progress h/2 *)
resetStep(f, curT, targetK, h) ==
  LET ft  == Feature(f)
      ax  == width \div 2
      ay  == height \div 2
      cs  == Controls(ax, ay, ft.cx, ft.cy, curT.y + Scaled(ft.bottom, curT.k) <= height \div 2)
      et  == easeCubicInOut(h)
      ptx == cubicAt(2 - et, ax, cs.c1x, cs.c2x, ft.cx)
      pty == cubicAt(2 - et, ay, cs.c1y, cs.c2y, ft.cy)
      kView == curT.k + ((targetK - curT.k) * et) \div 2
  IN  clampTransform(T(width \div 2 - Scaled(ptx, kView),
                       height \div 2 - Scaled(pty, kView), kView))

DegenerateNever(f, curT) == FALSE

(* dlen < 0.5: the centroid's screen position is the viewport centre *)
Degenerate(f, curT) ==
  /\ curT.x + Scaled(Feature(f).cx, curT.k) = width \div 2
  /\ curT.y + Scaled(Feature(f).cy, curT.k) = height \div 2

-----------------------------------------------------------------------------
(* World map: state and handlers.  Each country element has one fill
   transition at a time; an svg transition to the identity is pending or
   over, with no frames in between.  Timeouts fire in the order they fall
   due.  Double-click and pinch gestures are not part of this state
   machine; playback and the legend swatches have their own below. *)

MaxAnims    == 2
MaxGestures == 2

Ev(e, f, again) == [ev |-> e, f |-> f, again |-> again]

(* The closure of one scripted animation: the frame callback (raf), the
   overlay element and the timeout that removes it, and the highlight timers
   still to fire: "fadeIn" (fadeInTimer), "orange" (tOrange and tBack),
   "back" (tBack).  again is history: the click hit the zoomed-in feature. *)
Anim(kind, f, curT, again) ==
  [kind |-> kind, f |-> f, curT |-> curT, raf |-> TRUE, overlay |-> TRUE,
   ovTimer |-> FALSE, hl |-> IF kind = "in" THEN "fadeIn" ELSE "none",
   again |-> again, cancelled |-> FALSE]

Live(anims) == SelectSeq(anims, LAMBDA a : a.raf \/ a.ovTimer \/ a.hl # "none")

(* What is observed of a step, from the event it handled (wLast') and the
   state before it.  saved: the data-prev-fill attributes as they were when
   a zoom-in was cancelled.  reset: a reset animation that started with no
   frame callback and no overlay timeout pending is "running" until its
   last frame ("done") and its completion timeout ("cleared"), as long as
   no click, gesture or other transform change comes in between. *)
NoneSaved == [c \in Countries |-> NullAttr]
NoHist == [cancelF |-> "none", saved |-> NoneSaved, reset |-> "none"]
Quiet == {"frame", "timer", "year"}
ResetStage ==
  IF wLast'.ev = "reset"
    THEN IF /\ ~prefersReduced
            /\ lastClickedFeature # "none" /\ Feature(lastClickedFeature).finite
            /\ \A i \in 1..Len(wAnims) : ~wAnims[i].raf /\ ~wAnims[i].ovTimer
            /\ ~wSvgTr
         THEN "running" ELSE "none"
  ELSE IF wHist.reset = "running"
    THEN IF wLast'.ev = "resetDone" THEN "done"
         ELSE IF wLast'.ev \in Quiet THEN "running" ELSE "none"
  ELSE IF wHist.reset = "done"
    THEN IF wLast'.ev = "timer" /\ wLast'.f = "out" THEN "cleared"
         ELSE IF wLast'.ev \in Quiet THEN "done" ELSE "none"
  ELSE "none"
ObserveWorld ==
  /\ wBudget' = wBudget
  /\ wHist' = [cancelF |-> IF wLast'.ev = "cancel" THEN wLast'.f ELSE "none",
               saved   |-> IF wLast'.ev = "cancel" THEN prevFill ELSE NoneSaved,
               reset   |-> ResetStage]
Observe == ObserveWorld /\ UNCHANGED notWorld

InitWorld ==
  /\ wLoaded = TRUE
  /\ prefersReduced \in BOOLEAN
  /\ popColumns \in BOOLEAN
  /\ wZoom = Identity
  /\ wG = Identity
  /\ wSvgTr = FALSE
  /\ wAnims = <<>>
  /\ wStarted = 0
  /\ wGestures = 0
  /\ lastClickedFeature = "none"
  /\ currentYear = 1960
  /\ fill = [c \in Countries |-> Choropleth(c, 1960)]
  /\ prevFill = [c \in Countries |-> NullAttr]
  /\ fillTr = [c \in Countries |-> NoTr]
  /\ wLast = Ev("init", "none", FALSE)
  /\ wZoomedIn = "none"
  /\ wHist = NoHist

NoWorldPage ==
  /\ wLoaded = FALSE
  /\ popColumns = FALSE
  /\ wZoom = Identity
  /\ wG = Identity
  /\ wSvgTr = FALSE
  /\ wAnims = <<>>
  /\ wStarted = 0
  /\ wGestures = 0
  /\ lastClickedFeature = "none"
  /\ currentYear = 1960
  /\ fill = [c \in Countries |-> "#eee"]
  /\ prevFill = [c \in Countries |-> NullAttr]
  /\ fillTr = [c \in Countries |-> NoTr]
  /\ wLast = Ev("init", "none", FALSE)
  /\ wZoomedIn = "none"
  /\ wBudget = 0
  /\ wHist = NoHist

IdleWorld == prefersReduced = FALSE /\ NoWorldPage

(* svg.call(zoom.transform, t), and a gesture's zoom event alike: d3 keeps t,
   interrupts a transition of the svg, and the zoom listener renders
   clampTransform(t) on the map group *)
SetZoom(t) ==
  /\ wZoom' = t
  /\ wG' = clampTransform(t)
  /\ wSvgTr' = FALSE

(* the click handler of a country path *)
ClickCountry(f) ==
  /\ wLoaded
  /\ lastClickedFeature' = f
  /\ IF ~Feature(f).finite
     THEN /\ wLast' = Ev("noZoom", f, FALSE)
          /\ wZoomedIn' = "none"
          /\ UNCHANGED <<wZoom, wG, wSvgTr, wAnims, wStarted>>
     ELSE IF prefersReduced \/ Degenerate(f, wZoom)
     THEN /\ SetZoom(zoomToFeature(f, K(3), wZoom))
          /\ wLast' = Ev("zoomInstant", f, wZoomedIn = f)
          /\ wZoomedIn' = IF \E i \in 1..Len(wAnims) : wAnims[i].raf THEN "none" ELSE f
          /\ UNCHANGED <<wAnims, wStarted>>
     ELSE /\ wStarted < wBudget
          /\ wAnims' = Append(wAnims, Anim("in", f, wZoom, wZoomedIn = f))
          /\ wStarted' = wStarted + 1
          /\ wLast' = Ev("click", f, wZoomedIn = f)
          /\ wZoomedIn' = "none"
          /\ UNCHANGED <<wZoom, wG, wSvgTr>>
  /\ Observe
  /\ UNCHANGED <<wLoaded, prefersReduced, popColumns, wGestures, currentYear, fill, prevFill, fillTr>>

(* the click handler of the reset button *)
ResetClick ==
  /\ wLoaded
  /\ IF prefersReduced
     THEN /\ SetZoom(Identity)
          /\ wLast' = Ev("resetInstant", "none", FALSE)
          /\ UNCHANGED <<wAnims, wStarted>>
     ELSE IF lastClickedFeature # "none" /\ Feature(lastClickedFeature).finite
     THEN /\ wStarted < wBudget
          /\ wAnims' = Append(wAnims, Anim("out", lastClickedFeature, wZoom, FALSE))
          /\ wStarted' = wStarted + 1
          /\ wLast' = Ev("reset", "none", FALSE)
          /\ UNCHANGED <<wZoom, wG, wSvgTr>>
     ELSE /\ wSvgTr' = TRUE
          /\ wLast' = Ev("reset", "none", FALSE)
          /\ UNCHANGED <<wZoom, wG, wAnims, wStarted>>
  /\ wZoomedIn' = "none"
  /\ Observe
  /\ UNCHANGED <<wLoaded, prefersReduced, popColumns, wGestures, lastClickedFeature,
                 currentYear, fill, prevFill, fillTr>>

(* the end of svg.transition().duration(600).call(zoom.transform, identity) *)
SvgTransitionEnd ==
  /\ wSvgTr
  /\ SetZoom(Identity)
  /\ wLast' = Ev("svgEnd", "none", FALSE)
  /\ Observe
  /\ UNCHANGED <<wLoaded, prefersReduced, popColumns, wAnims, wStarted, wGestures,
                 lastClickedFeature, currentYear, fill, prevFill, fillTr, wZoomedIn>>

(* step(now) of animation i with elapsed < duration (h = 1) or not (h = 2).
   Every animation lasts 2000 ms, so they reach their last frame in the
   order they started.  After the last frame the closure's start transform
   is dead and is reset. *)
Frame(i, h) ==
  /\ i \in 1..Len(wAnims)
  /\ wAnims[i].raf
  /\ h = 2 => \A j \in 1..(i - 1) : ~wAnims[j].raf
  /\ LET a == wAnims[i]
     IN  /\ SetZoom(IF a.kind = "in" THEN zoomInStep(a.f, a.curT, K(3), h)
                    ELSE resetStep(a.f, a.curT, K(1), h))
         /\ IF h = 2
            THEN /\ wAnims' = Live([wAnims EXCEPT ![i].raf = FALSE, ![i].ovTimer = TRUE,
                                                ![i].curT = Identity, ![i].again = FALSE])
                 /\ wLast' = Ev(IF a.kind = "in" THEN "zoomInDone" ELSE "resetDone",
                                a.f, a.again)
                 /\ wZoomedIn' = IF a.kind = "in"
                                    /\ \A j \in 1..Len(wAnims) : j # i => ~wAnims[j].raf
                                 THEN a.f ELSE "none"
            ELSE /\ wLast' = Ev("frame", "none", FALSE)
                 /\ UNCHANGED <<wAnims, wZoomedIn>>
  /\ Observe
  /\ UNCHANGED <<wLoaded, prefersReduced, popColumns, wStarted, wGestures, lastClickedFeature,
                 currentYear, fill, prevFill, fillTr>>

(* clearCountryHighlight: every saved fill is written back *)
clearCountryHighlight(fl) ==
  [c \in Countries |-> IF prevFill[c] \notin {NullAttr, ""} THEN prevFill[c] ELSE fl[c]]

(* the 300 ms timeout set by the last frame of animation i: it is due after
   fadeInTimer and tOrange, and after the tBack of every animation that
   started before *)
OverlayTimer(i) ==
  /\ i \in 1..Len(wAnims)
  /\ wAnims[i].ovTimer
  /\ wAnims[i].hl \notin {"fadeIn", "orange"}
  /\ \A j \in 1..(i - 1) : ~wAnims[j].ovTimer /\ ~wAnims[j].raf /\ wAnims[j].hl = "none"
  /\ wAnims' = Live([wAnims EXCEPT ![i].ovTimer = FALSE, ![i].overlay = FALSE])
  /\ IF wAnims[i].kind = "out"
     THEN /\ fill' = clearCountryHighlight(fill)
          /\ prevFill' = [c \in Countries |->
                            IF prevFill[c] \notin {NullAttr, ""} THEN NullAttr ELSE prevFill[c]]
     ELSE UNCHANGED <<fill, prevFill>>
  /\ wLast' = Ev("timer", IF wAnims[i].kind = "out" THEN "out" ELSE "none", FALSE)
  /\ Observe
  /\ UNCHANGED <<wLoaded, prefersReduced, popColumns, wZoom, wG, wSvgTr, wStarted, wGestures,
                 lastClickedFeature, currentYear, fillTr, wZoomedIn>>

(* fadeInTimer: startHighlightFadeSequence saves the fill and sets tOrange, tBack *)
FadeInTimer(i) ==
  /\ i \in 1..Len(wAnims)
  /\ wAnims[i].hl = "fadeIn"
  /\ \A j \in 1..(i - 1) : wAnims[j].hl # "fadeIn"
  /\ prevFill' = [prevFill EXCEPT ![wAnims[i].f] = fill[wAnims[i].f]]
  /\ wAnims' = [wAnims EXCEPT ![i].hl = "orange"]
  /\ wLast' = Ev("timer", "none", FALSE)
  /\ Observe
  /\ UNCHANGED <<wLoaded, prefersReduced, popColumns, wZoom, wG, wSvgTr, wStarted, wGestures,
                 lastClickedFeature, currentYear, fill, fillTr, wZoomedIn>>

(* tOrange: the flash *)
OrangeTimer(i) ==
  /\ i \in 1..Len(wAnims)
  /\ wAnims[i].hl = "orange"
  /\ \A j \in 1..(i - 1) : wAnims[j].hl \notin {"fadeIn", "orange"}
  /\ fill' = [fill EXCEPT ![wAnims[i].f] = ORANGE]
  /\ wAnims' = [wAnims EXCEPT ![i].hl = "back"]
  /\ wLast' = Ev("timer", "none", FALSE)
  /\ Observe
  /\ UNCHANGED <<wLoaded, prefersReduced, popColumns, wZoom, wG, wSvgTr, wStarted, wGestures,
                 lastClickedFeature, currentYear, prevFill, fillTr, wZoomedIn>>

(* tBack: a 500 ms transition of the fill back to the saved fill starts; it
   supersedes the transition the element had, tweens only if the fill
   differs from its target, and then every tick writes the interpolated
   colour.  tBack is due 300 ms after the animation's duration, so the last
   frame has run. *)
BackTimer(i) ==
  /\ i \in 1..Len(wAnims)
  /\ wAnims[i].hl = "back"
  /\ ~wAnims[i].raf
  /\ \A j \in 1..(i - 1) : wAnims[j].hl = "none"
  /\ LET c      == wAnims[i].f
         prev   == IF prevFill[c] = NullAttr THEN "" ELSE prevFill[c]
         active == fill[c] # prev
     IN  /\ fillTr' = [fillTr EXCEPT ![c] = [state |-> "running", target |-> prev,
                                             active |-> active]]
         /\ fill' = IF active THEN [fill EXCEPT ![c] = "interpolated"] ELSE fill
  /\ wAnims' = Live([wAnims EXCEPT ![i].hl = "none"])
  /\ wLast' = Ev("timer", "none", FALSE)
  /\ Observe
  /\ UNCHANGED <<wLoaded, prefersReduced, popColumns, wZoom, wG, wSvgTr, wStarted, wGestures,
                 lastClickedFeature, currentYear, prevFill, wZoomedIn>>

(* the fill transition ends: the last tick writes the target, and the end
   listener removes data-prev-fill *)
FillTransitionEnd(c) ==
  /\ fillTr[c].state = "running"
  /\ fill' = IF fillTr[c].active THEN [fill EXCEPT ![c] = fillTr[c].target] ELSE fill
  /\ prevFill' = [prevFill EXCEPT ![c] = NullAttr]
  /\ fillTr' = [fillTr EXCEPT ![c] = NoTr]
  /\ wLast' = Ev("timer", "none", FALSE)
  /\ Observe
  /\ UNCHANGED <<wLoaded, prefersReduced, popColumns, wZoom, wG, wSvgTr, wAnims, wStarted,
                 wGestures, lastClickedFeature, currentYear, wZoomedIn>>

(* The function animateZoomToFeature returns, called by a holder of it while
   animation i has a callback, timer or overlay left: the pending frame is
   cancelled, the overlay removed, the highlight timers cleared, every
   transition of a country interrupted where it stands, and each country
   gets its data-prev-fill back as fill, unless that is empty, and loses
   the attribute.  The overlay's own timeout is left to fire. *)
Cancel(i) ==
  /\ i \in 1..Len(wAnims)
  /\ wAnims[i].kind = "in"
  /\ ~wAnims[i].cancelled
  /\ wAnims' = Live([wAnims EXCEPT ![i].raf = FALSE, ![i].overlay = FALSE,
                                   ![i].hl = "none", ![i].cancelled = TRUE,
                                   ![i].curT = Identity, ![i].again = FALSE])
  /\ fillTr' = [c \in Countries |-> NoTr]
  /\ fill' = [c \in Countries |->
                IF prevFill[c] \notin {NullAttr, ""} THEN prevFill[c] ELSE fill[c]]
  /\ prevFill' = [c \in Countries |-> NullAttr]
  /\ wLast' = Ev("cancel", wAnims[i].f, FALSE)
  /\ Observe
  /\ UNCHANGED <<wLoaded, prefersReduced, popColumns, wZoom, wG, wSvgTr, wStarted, wGestures,
                 lastClickedFeature, currentYear, wZoomedIn>>

(* Timeline, legend swatches and point layer: data and pure parts *)

(* The rows of the disaster CSV that have coordinates.  type is the set of
   the keywords that occur in the row's lower-cased disastertype; the row
   of 1961 with no keyword is of an unknown type.  A CSV of POP columns has
   no coordinates, hence no points. *)
DisasterRows ==
  { [id |-> 1, year |-> 1960, type |-> {"storm"}],
    [id |-> 2, year |-> 1961, type |-> {"flood"}],
    [id |-> 3, year |-> 1961, type |-> {}],
    [id |-> 4, year |-> 1963, type |-> {"mass movement", "mass", "movement"}] }
allPoints == IF popColumns THEN {} ELSE DisasterRows

SwatchKeys == {"massmovement", "landslide", "earthquake", "drought", "flood",
               "storm", "temperature", "volcano", "other"}

(* ascending sequence of a finite set of integers *)
RECURSIVE SortedSeq(_)
SortedSeq(S) ==
  IF S = {} THEN <<>>
  ELSE LET m == CHOOSE x \in S : \A y \in S : x <= y
       IN  <<m>> \o SortedSeq(S \ {m})

(* availableYears: the years of the POP columns, or else of the rows; 1960
   is always added; years after 2020 are dropped *)
availableYears ==
  SortedSeq({y \in (IF popColumns THEN Years ELSE {r.year : r \in DisasterRows}) : y <= 2020}
            \cup {1960})
minYear == availableYears[1]
maxYear == availableYears[Len(availableYears)]
(* the values of the slider: min, max and step 1 *)
SliderYears == minYear..maxYear

(* years.indexOf(y), 0-based; -1 when absent *)
indexOf(years, y) ==
  IF \E i \in 1..Len(years) : years[i] = y
  THEN (CHOOSE i \in 1..Len(years) : years[i] = y) - 1
  ELSE -1

(* The value JSON.parse gives for the entry.  kind: "object" (off: the keys
   whose flag is 1), "array", "primitive" (a number, a string, a boolean) or
   "null".  A missing or empty entry and a text JSON.parse rejects leave
   the empty object. *)
SwatchValue(kind, off) == [kind |-> kind, off |-> off]
Entry(kind, off) == [kind |-> kind, off |-> off]
parseStored(e) ==
  IF e.kind \in {"missing", "unparseable"} THEN SwatchValue("object", {})
  ELSE SwatchValue(e.kind, e.off)

(* JSON.stringify(swatchState): an array's named properties are left out *)
stringify(v) ==
  IF v.kind = "array" THEN Entry("array", {}) ELSE Entry("object", v.off)

(* swatchState.<key> === 1 *)
flag(v, key) == key \in v.off

(* the row is filtered out by the disabled flags *)
matchedAny(raw) ==
  raw \cap {"storm", "drought", "flood", "landslide", "earthquake", "quake",
            "volcan", "volcano", "temperature", "heat", "mass"} # {}
matches(key, raw) ==
  IF key = "massmovement"
    THEN \/ "mass movement" \in raw \/ "mass-movement" \in raw \/ "massmovement" \in raw
         \/ ("mass" \in raw /\ "movement" \in raw)
  ELSE IF key = "earthquake" THEN "earthquake" \in raw \/ "quake" \in raw
  ELSE IF key = "temperature" THEN "temperature" \in raw \/ "heat" \in raw
  ELSE IF key = "volcano" THEN "volcan" \in raw \/ "volcano" \in raw
  ELSE IF key = "other" THEN ~matchedAny(raw)
  ELSE key \in raw
hidden(v, raw) == \E key \in SwatchKeys : flag(v, key) /\ matches(key, raw)

(* plotPoints without the swatch filter: every row whatever its type *)
plotPointsUnfiltered(selected, playMode, v) ==
  { p \in allPoints :
      IF playMode THEN selected - p.year >= 0 /\ selected - p.year < 5
      ELSE p.year = selected }

(* the data plotPoints binds to the circles: the rows of the year (while
   playing, of the year and the four before it) that no disabled flag
   filters out.  The keyed join leaves one circle per datum. *)
plotPoints(selected, playMode, v) ==
  { p \in allPoints :
      /\ IF playMode THEN selected - p.year >= 0 /\ selected - p.year < 5
         ELSE p.year = selected
      /\ ~hidden(v, p.type) }

(* renderForYear: every country gets the fill of its value in that year,
   and the legend is built anew, each swatch's data-toggled from swatchState *)
renderForYear(year) ==
  /\ currentYear' = year
  /\ fill' = [c \in Countries |-> Choropleth(c, year)]
  /\ toggledAttr' = {key \in SwatchKeys : flag(swatchState, key)}

(* history: a timeline event, the swatch it was on, whether it left the
   swatch off, and the data of the point layer before it *)
TEv(ev, key, nowOff, before) == [ev |-> ev, key |-> key, nowOff |-> nowOff, before |-> before]
NoTEv == TEv("init", "none", FALSE, {})
Record(e) == [cur |-> e, prev |-> tLast.cur]

(* the input handler of the year slider; a disabled slider takes no input *)
YearInput(year) ==
  /\ wLoaded
  /\ drawn = "ok"
  /\ ~sliderDisabled
  /\ wGestures < MaxGestures
  /\ year # currentYear
  /\ renderForYear(year)
  /\ points' = plotPoints(year, isPlaying, swatchState)
  /\ wGestures' = wGestures + 1
  /\ wLast' = Ev("year", "none", FALSE)
  /\ tLast' = Record(TEv("year", "none", FALSE, points))
  /\ UNCHANGED <<riskVars, clampVars, japanVars, startVars, dtVars, hookVars, tipVars, joinVars>>
  /\ ObserveWorld
  /\ UNCHANGED <<wLoaded, prefersReduced, popColumns, wZoom, wG, wSvgTr, wAnims, wStarted,
                 lastClickedFeature, prevFill, fillTr, wZoomedIn>>
  /\ UNCHANGED <<stored, storedAtLoad, swatchState, drawn, isPlaying, playTimer, playIdx,
                 sliderDisabled, tClicks, tTicks>>

(* The gestures d3-zoom turns into zoom events.  The filter is asked at the
   start of a gesture: wheel, mousedown, touchstart. *)
filter(type) ==
  IF type \in {"wheel", "dblclick", "touchstart"} THEN TRUE
  ELSE wZoom.k > K(minK)

Pointer == [x |-> width \div 2, y |-> height \div 2]
Drags   == {[dx |-> 1000, dy |-> -100]}

(* a wheel gesture that doubles or halves the scale about the pointer; d3
   clamps the scale to scaleExtent and ignores a wheel that leaves it as is *)
Wheel(up) ==
  /\ wLoaded
  /\ wGestures < MaxGestures
  /\ filter("wheel")
  /\ LET k1 == Max(K(minK), Min(K(maxK), IF up THEN wZoom.k * 2 ELSE wZoom.k \div 2))
     IN  /\ k1 # wZoom.k
         /\ SetZoom(T(Pointer.x - ((Pointer.x - wZoom.x) * k1) \div wZoom.k,
                      Pointer.y - ((Pointer.y - wZoom.y) * k1) \div wZoom.k, k1))
  /\ wGestures' = wGestures + 1
  /\ wLast' = Ev("wheel", "none", FALSE)
  /\ wZoomedIn' = "none"
  /\ Observe
  /\ UNCHANGED <<wLoaded, prefersReduced, popColumns, wAnims, wStarted,
                 lastClickedFeature, currentYear, fill, prevFill, fillTr>>

(* mousedown, mousemove by d, mouseup *)
MouseDrag(d) ==
  /\ wLoaded
  /\ wGestures < MaxGestures
  /\ filter("mousedown")
  /\ SetZoom(T(wZoom.x + d.dx, wZoom.y + d.dy, wZoom.k))
  /\ wGestures' = wGestures + 1
  /\ wLast' = Ev("mouseDrag", "none", FALSE)
  /\ wZoomedIn' = "none"
  /\ Observe
  /\ UNCHANGED <<wLoaded, prefersReduced, popColumns, wAnims, wStarted,
                 lastClickedFeature, currentYear, fill, prevFill, fillTr>>

(* touchstart with one finger, touchmove by d, touchend *)
TouchDrag(d) ==
  /\ wLoaded
  /\ wGestures < MaxGestures
  /\ filter("touchstart")
  /\ SetZoom(T(wZoom.x + d.dx, wZoom.y + d.dy, wZoom.k))
  /\ wGestures' = wGestures + 1
  /\ wLast' = Ev("touchDrag", "none", FALSE)
  /\ wZoomedIn' = "none"
  /\ Observe
  /\ UNCHANGED <<wLoaded, prefersReduced, popColumns, wAnims, wStarted,
                 lastClickedFeature, currentYear, fill, prevFill, fillTr>>

WorldNext ==
  \/ \E f \in Countries : ClickCountry(f)
  \/ ResetClick
  \/ SvgTransitionEnd
  \/ \E i \in 1..MaxAnims, h \in {1, 2} : Frame(i, h)
  \/ \E i \in 1..MaxAnims : OverlayTimer(i)
  \/ \E i \in 1..MaxAnims : FadeInTimer(i)
  \/ \E i \in 1..MaxAnims : OrangeTimer(i)
  \/ \E i \in 1..MaxAnims : BackTimer(i)
  \/ \E c \in Countries : FillTransitionEnd(c)
  \/ \E year \in Years : YearInput(year)
  \/ \E up \in BOOLEAN : Wheel(up)
  \/ \E d \in Drags : MouseDrag(d)
  \/ \E d \in Drags : TouchDrag(d)

(* The zoom animations by themselves, with a holder of the cancel
   functions and a feature of empty geometry among those clicked *)
MaxZoomAnims == 3
ZoomFeatures == {"A", "N"}

AnimNext ==
  \/ \E f \in ZoomFeatures : ClickCountry(f)
  \/ ResetClick
  \/ SvgTransitionEnd
  \/ \E i \in 1..MaxZoomAnims, h \in {1, 2} : Frame(i, h)
  \/ \E i \in 1..MaxZoomAnims : OverlayTimer(i)
  \/ \E i \in 1..MaxZoomAnims : FadeInTimer(i)
  \/ \E i \in 1..MaxZoomAnims : OrangeTimer(i)
  \/ \E i \in 1..MaxZoomAnims : BackTimer(i)
  \/ \E c \in Countries : FillTransitionEnd(c)

(* the same with a holder of the cancel functions *)
ZoomNext ==
  \/ AnimNext
  \/ \E i \in 1..MaxZoomAnims : Cancel(i)

-----------------------------------------------------------------------------
(* World map: timeline playback, legend swatches, point layer.  The state
   after drawMap: the entry is parsed, renderForYear builds the legend, the
   slider and the play button are wired and the points of the start year
   are plotted.  A null swatchState makes renderForYear throw when it reads
   a flag; drawMap's catch then reports a failure and nothing after the
   call is set up.  localStorage.setItem is taken to succeed. *)

MaxTClicks == 3

StoredInputs ==
  { Entry("missing", {}), Entry("unparseable", {}), Entry("null", {}),
    Entry("primitive", {}), Entry("array", {}),
    Entry("object", {}), Entry("object", {"storm"}) }

TimelineAfterDrawMap(e) ==
  /\ stored = e
  /\ storedAtLoad = e
  /\ swatchState = parseStored(e)
  /\ drawn = IF parseStored(e).kind = "null" THEN "failed" ELSE "ok"
  /\ toggledAttr = IF parseStored(e).kind = "null" THEN {}
                   ELSE {key \in SwatchKeys : flag(parseStored(e), key)}
  /\ isPlaying = FALSE
  /\ playTimer = 0
  /\ playIdx = 0
  /\ sliderDisabled = FALSE
  /\ points = IF parseStored(e).kind = "null" THEN {}
              ELSE plotPoints(1960, FALSE, parseStored(e))
  /\ tClicks = 0
  /\ tTicks = 0
  /\ tLast = [cur |-> NoTEv, prev |-> NoTEv]

InitTimeline == \E e \in StoredInputs : TimelineAfterDrawMap(e)

IdleTimeline == TimelineAfterDrawMap(Entry("missing", {}))

timelineWorld == <<wLoaded, prefersReduced, popColumns, wZoom, wG, wSvgTr, wAnims, wStarted,
                   wGestures, lastClickedFeature, prevFill, fillTr, wLast, wZoomedIn>>

stopPlaybackKeepsSlider ==
  /\ playTimer' = 0
  /\ isPlaying' = FALSE
  /\ UNCHANGED sliderDisabled

stopPlayback ==
  /\ playTimer' = 0
  /\ isPlaying' = FALSE
  /\ sliderDisabled' = FALSE

(* startPlayback, called with isPlaying false: the start year is rendered
   and plotted before isPlaying is set *)
startPlayback ==
  /\ renderForYear(currentYear)
  /\ points' = plotPoints(currentYear, isPlaying, swatchState)
  /\ playIdx' = IF indexOf(availableYears, currentYear) = -1 THEN 0
            ELSE indexOf(availableYears, currentYear)
  /\ isPlaying' = TRUE
  /\ sliderDisabled' = TRUE
  /\ playTimer' = 1
  /\ tTicks' = 0

(* the click handler of the play button *)
PlayClick ==
  /\ wLoaded
  /\ drawn = "ok"
  /\ tClicks < MaxTClicks
  /\ tClicks' = tClicks + 1
  /\ IF isPlaying
     THEN /\ stopPlayback
          /\ tLast' = Record(TEv("pause", "none", FALSE, points))
          /\ UNCHANGED <<currentYear, fill, toggledAttr, points, playIdx, tTicks>>
     ELSE /\ startPlayback
          /\ tLast' = Record(TEv("play", "none", FALSE, points))
  /\ UNCHANGED <<riskVars, clampVars, japanVars, timelineWorld, obsVars, startVars, dtVars, hookVars, tipVars, joinVars>>
  /\ UNCHANGED <<stored, storedAtLoad, swatchState, drawn>>

TickWraps ==
  /\ playTimer # 0
  /\ tTicks' = Min(tTicks + 1, Len(availableYears) + 1)
  /\ playIdx' = (playIdx + 1) % Len(availableYears)
  /\ renderForYear(availableYears[playIdx' + 1])
  /\ points' = plotPoints(availableYears[playIdx' + 1], isPlaying, swatchState)
  /\ UNCHANGED <<isPlaying, playTimer, sliderDisabled>>
  /\ tLast' = Record(TEv("tick", "none", FALSE, points))
  /\ UNCHANGED <<riskVars, clampVars, japanVars, timelineWorld, obsVars, startVars, dtVars, hookVars, tipVars, joinVars>>
  /\ UNCHANGED <<stored, storedAtLoad, swatchState, drawn, tClicks>>

(* the interval's callback *)
Tick ==
  /\ playTimer # 0
  /\ tTicks' = tTicks + 1
  /\ playIdx' = playIdx + 1
  /\ IF playIdx + 1 >= Len(availableYears)
     THEN /\ stopPlayback
          /\ UNCHANGED <<currentYear, fill, toggledAttr, points>>
     ELSE /\ renderForYear(availableYears[playIdx + 2])
          /\ points' = plotPoints(availableYears[playIdx + 2], isPlaying, swatchState)
          /\ UNCHANGED <<isPlaying, playTimer, sliderDisabled>>
  /\ tLast' = Record(TEv("tick", "none", FALSE, points))
  /\ UNCHANGED <<riskVars, clampVars, japanVars, timelineWorld, obsVars, startVars, dtVars, hookVars, tipVars, joinVars>>
  /\ UNCHANGED <<stored, storedAtLoad, swatchState, drawn, tClicks>>

(* setSwatchState(key, val) *)
setSwatchState(key, val) ==
  /\ swatchState' = [swatchState EXCEPT !.off = IF val = 1 THEN @ \cup {key} ELSE @ \ {key}]
  /\ stored' = stringify(swatchState')

(* The click handler of a swatch.  After drawMap it is the unified handler:
   the element's data-toggled is flipped, the flag is set and stored, the
   points of the current year are plotted anew.  Setting a property on a
   primitive swatchState throws (module code is strict), which ends the
   handler after the flip.  When drawMap failed, the handlers are the ones
   the legend was built with, which flip data-toggled and nothing else. *)
SwatchClick(key) ==
  /\ wLoaded
  /\ tClicks < MaxTClicks
  /\ tClicks' = tClicks + 1
  /\ toggledAttr' = IF key \in toggledAttr THEN toggledAttr \ {key} ELSE toggledAttr \cup {key}
  /\ IF drawn = "failed" \/ swatchState.kind = "primitive"
     THEN UNCHANGED <<stored, swatchState, points>>
     ELSE /\ setSwatchState(key, IF key \in toggledAttr THEN 0 ELSE 1)
          /\ points' = plotPoints(currentYear, isPlaying, swatchState')
  /\ tLast' = Record(TEv("swatch", key, key \notin toggledAttr, points))
  /\ UNCHANGED <<riskVars, clampVars, japanVars, timelineWorld, obsVars, startVars, dtVars, hookVars, tipVars, joinVars, currentYear, fill>>
  /\ UNCHANGED <<storedAtLoad, drawn, isPlaying, playTimer, playIdx, sliderDisabled, tTicks>>

TimelineNext ==
  \/ PlayClick
  \/ Tick
  \/ \E key \in SwatchKeys : SwatchClick(key)
  \/ \E year \in SliderYears : YearInput(year)

-----------------------------------------------------------------------------
(* Japan prefecture map: click animations.  Frames are sampled at progress
   1/2 and 1 (and, for the move, once more when the indicators have faded).
   Hover handlers and the point layer are not part of this state machine. *)

japanWidth  == 900
japanHeight == 700
japanMinK   == 1
japanMaxK   == 10
MaxJClicks   == 3
MaxJGestures == 1

Z(n) == 8 * n
ZScaled(s, z) == (s * z) \div Z(1)

Pt(x, y) == [x |-> x, y |-> y]
svgCenter == Pt(japanWidth \div 2, japanHeight \div 2)

Prefectures == {"Miyagi", "Tokyo"}
(* path.centroid of a prefecture *)
centroid(p) == IF p = "Miyagi" THEN Pt(650, 250) ELSE Pt(250, 550)

GREY == "#f7f7f7"
GOLD == "#e7c320ff"

(* d3.zoomIdentity.translate(width/2, height/2).scale(z).translate(-v.x, -v.y) *)
viewTransform(z, v) ==
  T(svgCenter.x - ZScaled(v.x, z), svgCenter.y - ZScaled(v.y, z), z)

JapanIdentity == T(0, 0, Z(1))

NoAnimation ==
  [id |-> 0, kind |-> "none", target |-> "none", startZoom |-> 0,
   startView |-> Pt(0, 0), phase |-> 0, again |-> FALSE]

JEv(e, kind, p, again) == [ev |-> e, kind |-> kind, p |-> p, again |-> again]

(* The point of the circular path at eased progress 1/2: the circle has the
   segment from the svg centre to the centroid as diameter, and angleSpan is
   +pi when the centroid lies below the centre (or level, to its left), else
   -pi. *)
circleMid(p) ==
  LET c   == centroid(p)
      dx  == c.x - svgCenter.x
      dy  == c.y - svgCenter.y
      mid == Pt((svgCenter.x + c.x) \div 2, (svgCenter.y + c.y) \div 2)
  IN  IF dy > 0 \/ (dy = 0 /\ dx < 0)
      THEN Pt(mid.x + dy \div 2, mid.y - dx \div 2)
      ELSE Pt(mid.x - dy \div 2, mid.y + dx \div 2)

(* the last frame number of an animation: the move runs on until its
   indicators have faded *)
LastFrame(kind) == IF kind = "move" THEN 3 ELSE 2

(* highlightPrefecture: gold at once, and a transition back to grey *)
highlightPrefecture(p) ==
  /\ jFill' = [jFill EXCEPT ![p] = GOLD]
  /\ jFillTr' = jFillTr \cup {p}

InitJapan ==
  /\ jLoaded = TRUE
  /\ jT = JapanIdentity
  /\ isAnimating = FALSE
  /\ currentAnimationId = NoAnimation
  /\ lastClickedPrefecture = "none"
  /\ currentZoomLevel = Z(1)
  /\ currentViewCenter = svgCenter
  /\ jIndicators = 0
  /\ jTimers = 0
  /\ jClicks = 0
  /\ jGestures = 0
  /\ jFill = [p \in Prefectures |-> GREY]
  /\ jFillTr = {}
  /\ jLast = JEv("init", "none", "none", FALSE)
  /\ jZoomedIn = "none"

IdleJapan ==
  /\ jLoaded = FALSE
  /\ jT = JapanIdentity
  /\ isAnimating = FALSE
  /\ currentAnimationId = NoAnimation
  /\ lastClickedPrefecture = "none"
  /\ currentZoomLevel = Z(1)
  /\ currentViewCenter = svgCenter
  /\ jIndicators = 0
  /\ jTimers = 0
  /\ jClicks = 0
  /\ jGestures = 0
  /\ jFill = [p \in Prefectures |-> GREY]
  /\ jFillTr = {}
  /\ jLast = JEv("init", "none", "none", FALSE)
  /\ jZoomedIn = "none"

(* the click handler of a prefecture path: the running animation's frame is
   cancelled, every indicator removed, and one of three animations started *)
PrefectureClick(p) ==
  /\ jLoaded
  /\ jClicks < MaxJClicks
  /\ LET id     == jClicks + 1
         isSamePrefecture ==
           lastClickedPrefecture = p /\ 2 * currentZoomLevel > 3 * Z(1)
         isDifferentPrefecture ==
           lastClickedPrefecture # "none" /\ lastClickedPrefecture # p
         kind   == IF isSamePrefecture THEN "out"
                   ELSE IF isDifferentPrefecture THEN "move" ELSE "in"
     IN  /\ currentAnimationId' =
              [id |-> id, kind |-> kind, target |-> p, startZoom |-> currentZoomLevel,
               startView |-> currentViewCenter, phase |-> 0, again |-> (jZoomedIn = p)]
         /\ jIndicators' = IF kind = "move" THEN id ELSE 0
         /\ lastClickedPrefecture' = IF kind = "out" THEN lastClickedPrefecture ELSE p
         /\ IF kind = "move" THEN highlightPrefecture(p) ELSE UNCHANGED <<jFill, jFillTr>>
         /\ jLast' = JEv("click", kind, p, jZoomedIn = p)
  /\ isAnimating' = TRUE
  /\ jClicks' = jClicks + 1
  /\ jZoomedIn' = "none"
  /\ UNCHANGED notJapan
  /\ UNCHANGED <<jLoaded, jT, currentZoomLevel, currentViewCenter, jTimers, jGestures>>

(* animate(): the zoom-in frame at progress h/2 *)
animate(a, h) ==
  LET zoomLevel == Z(1) + (3 * Z(1) * easeCubicInOut(h)) \div 2
      current   == IF h = 2 THEN centroid(a.target) ELSE circleMid(a.target)
  IN  /\ jT' = viewTransform(zoomLevel, current)
      /\ currentZoomLevel' = zoomLevel
      /\ currentViewCenter' = current
      /\ IF h = 2
         THEN /\ highlightPrefecture(a.target)
              /\ jTimers' = jTimers + 1
              /\ jZoomedIn' = a.target
         ELSE UNCHANGED <<jFill, jFillTr, jTimers, jZoomedIn>>
      /\ UNCHANGED lastClickedPrefecture

(* animateZoomOut() whose last frame is drawn at eased progress 7/8 *)
animateZoomOutShort(a, h) ==
  LET current   == Pt(a.startView.x + ((svgCenter.x - a.startView.x) * 7) \div 8,
                      a.startView.y + ((svgCenter.y - a.startView.y) * 7) \div 8)
      zoomLevel == a.startZoom + ((Z(1) - a.startZoom) * 7) \div 8
  IN  /\ jT' = viewTransform(zoomLevel, current)
      /\ IF h = 2
         THEN /\ lastClickedPrefecture' = "none"
              /\ currentZoomLevel' = Z(1)
              /\ currentViewCenter' = svgCenter
              /\ jTimers' = jTimers + 1
         ELSE /\ currentZoomLevel' = zoomLevel
              /\ currentViewCenter' = current
              /\ UNCHANGED <<lastClickedPrefecture, jTimers>>
      /\ UNCHANGED <<jFill, jFillTr, jZoomedIn>>

(* animateZoomOut(): eased is 7/8 at progress 1/2 and 1 at progress 1 *)
animateZoomOut(a, h) ==
  LET eased8    == IF h = 2 THEN 8 ELSE 7
      current   == Pt(a.startView.x + ((svgCenter.x - a.startView.x) * eased8) \div 8,
                      a.startView.y + ((svgCenter.y - a.startView.y) * eased8) \div 8)
      zoomLevel == a.startZoom + ((Z(1) - a.startZoom) * eased8) \div 8
  IN  /\ jT' = viewTransform(zoomLevel, current)
      /\ IF h = 2
         THEN /\ lastClickedPrefecture' = "none"
              /\ currentZoomLevel' = Z(1)
              /\ currentViewCenter' = svgCenter
              /\ jTimers' = jTimers + 1
         ELSE /\ currentZoomLevel' = zoomLevel
              /\ currentViewCenter' = current
              /\ UNCHANGED <<lastClickedPrefecture, jTimers>>
      /\ UNCHANGED <<jFill, jFillTr, jZoomedIn>>

(* animatePrefectureMove(): frame 1 is half way, frame 2 has the movement
   complete and the indicators still fading, frame 3 has both complete *)
animatePrefectureMove(a, h) ==
  LET c       == centroid(a.target)
      current == IF h = 1 THEN Pt(a.startView.x + (c.x - a.startView.x) \div 2,
                                  a.startView.y + (c.y - a.startView.y) \div 2)
                 ELSE c
  IN  /\ jT' = viewTransform(a.startZoom, current)
      /\ currentViewCenter' = IF h = 1 THEN current ELSE currentViewCenter
      /\ jTimers' = IF h = 3 THEN jTimers + 1 ELSE jTimers
      /\ UNCHANGED <<currentZoomLevel, lastClickedPrefecture, jFill, jFillTr, jZoomedIn>>

(* the pending frame callback runs *)
JapanFrame(h) ==
  /\ currentAnimationId # NoAnimation
  /\ LET a == currentAnimationId
     IN  /\ h >= a.phase
         /\ h >= 1
         /\ h <= LastFrame(a.kind)
         /\ IF a.kind = "in" THEN animate(a, h)
            ELSE IF a.kind = "out" THEN animateZoomOut(a, h)
            ELSE animatePrefectureMove(a, h)
         /\ IF h < LastFrame(a.kind) /\ isAnimating
            THEN /\ currentAnimationId' = [a EXCEPT !.phase = h]
                 /\ jLast' = JEv("frame", a.kind, a.target, a.again)
                 /\ UNCHANGED isAnimating
            ELSE /\ currentAnimationId' = NoAnimation
                 /\ isAnimating' = FALSE
                 /\ jLast' = JEv("done", a.kind, a.target, a.again)
  /\ UNCHANGED notJapan
  /\ UNCHANGED <<jLoaded, jIndicators, jClicks, jGestures>>

(* a cleanup timeout fires: g.selectAll('.zoom-indicator').remove() *)
IndicatorTimer ==
  /\ jTimers > 0
  /\ jTimers' = jTimers - 1
  /\ jIndicators' = 0
  /\ jLast' = JEv("timer", "none", "none", FALSE)
  /\ UNCHANGED notJapan
  /\ UNCHANGED <<jLoaded, jT, isAnimating, currentAnimationId, lastClickedPrefecture,
                 currentZoomLevel, currentViewCenter, jClicks, jGestures, jFill,
                 jFillTr, jZoomedIn>>

(* the 1600 ms fill transition of a highlighted prefecture ends *)
HighlightEnd(p) ==
  /\ p \in jFillTr
  /\ jFill' = [jFill EXCEPT ![p] = GREY]
  /\ jFillTr' = jFillTr \ {p}
  /\ UNCHANGED notJapan
  /\ UNCHANGED <<jLoaded, jT, isAnimating, currentAnimationId, lastClickedPrefecture,
                 currentZoomLevel, currentViewCenter, jIndicators, jTimers, jClicks,
                 jGestures, jLast, jZoomedIn>>

(* a wheel gesture on the svg: d3's default filter accepts it *)
JapanWheel(up) ==
  /\ jLoaded
  /\ jGestures < MaxJGestures
  /\ LET k1 == Max(Z(japanMinK), Min(Z(japanMaxK), IF up THEN jT.k * 2 ELSE jT.k \div 2))
     IN  /\ k1 # jT.k
         /\ jT' = T(svgCenter.x - ((svgCenter.x - jT.x) * k1) \div jT.k,
                    svgCenter.y - ((svgCenter.y - jT.y) * k1) \div jT.k, k1)
  /\ jGestures' = jGestures + 1
  /\ jLast' = JEv("wheel", "none", "none", FALSE)
  /\ UNCHANGED notJapan
  /\ UNCHANGED <<jLoaded, isAnimating, currentAnimationId, lastClickedPrefecture,
                 currentZoomLevel, currentViewCenter, jIndicators, jTimers, jClicks,
                 jFill, jFillTr, jZoomedIn>>

(* a drag gesture on the svg *)
JapanDrag(d) ==
  /\ jLoaded
  /\ jGestures < MaxJGestures
  /\ jT' = T(jT.x + d.dx, jT.y + d.dy, jT.k)
  /\ jGestures' = jGestures + 1
  /\ jLast' = JEv("drag", "none", "none", FALSE)
  /\ UNCHANGED notJapan
  /\ UNCHANGED <<jLoaded, isAnimating, currentAnimationId, lastClickedPrefecture,
                 currentZoomLevel, currentViewCenter, jIndicators, jTimers, jClicks,
                 jFill, jFillTr, jZoomedIn>>

JapanNext ==
  \/ \E p \in Prefectures : PrefectureClick(p)
  \/ \E h \in 1..3 : JapanFrame(h)
  \/ IndicatorTimer
  \/ \E p \in Prefectures : HighlightEnd(p)
  \/ \E up \in BOOLEAN : JapanWheel(up)
  \/ \E d \in Drags : JapanDrag(d)

-----------------------------------------------------------------------------
(* Japan page: how the risk layer and the prefecture tooltip start.  Both
   scripts need the path.prefecture elements the map script appends once its
   GeoJSON has loaded, which may be at any time or never. *)

AttachRetryLimit == 6
maxWaitMs == 4000
PollMs == 80
(* the delays after which a timeout of PollMs runs its callback *)
PollDelays == {PollMs, 3 * PollMs}

InitStart ==
  /\ pathsPresent = FALSE
  /\ loadAttempts = 0
  /\ attachAttempts = 0
  /\ attachPending = TRUE
  /\ attached = FALSE
  /\ waitState = "loading"
  /\ waitElapsed = 0
  /\ waitPolls = 0

IdleStart ==
  /\ pathsPresent = FALSE
  /\ loadAttempts = 0
  /\ attachAttempts = 0
  /\ attachPending = FALSE
  /\ attached = FALSE
  /\ waitState = "none"
  /\ waitElapsed = 0
  /\ waitPolls = 0

(* the map script appends the prefecture paths *)
RenderPaths ==
  /\ ~pathsPresent
  /\ pathsPresent' = TRUE
  /\ UNCHANGED <<loadAttempts, attachAttempts, attachPending, attached, waitState,
                 waitElapsed, waitPolls>>
  /\ UNCHANGED notStart

(* attachPrefectureHandlers that tries once more than the limit says *)
attachOnceMore(attempts, present) ==
  IF ~present
  THEN [pending |-> attempts <= AttachRetryLimit + 1, attached |-> FALSE]
  ELSE [pending |-> FALSE, attached |-> TRUE]

(* what attachPrefectureHandlers does after counting its attempt: without
   paths it sets a timeout for another call while the count is within the
   limit, with paths it registers the listeners *)
attachPrefectureHandlers(attempts, present) ==
  IF ~present
  THEN [pending |-> attempts <= AttachRetryLimit, attached |-> FALSE]
  ELSE [pending |-> FALSE, attached |-> TRUE]

(* the call at the end of the script, or the timeout's *)
Attach ==
  /\ attachPending
  /\ attachAttempts' = attachAttempts + 1
  /\ LET r == attachPrefectureHandlers(attachAttempts + 1, pathsPresent)
     IN  /\ attachPending' = r.pending
         /\ attached' = r.attached
  /\ UNCHANGED <<pathsPresent, loadAttempts, waitState, waitElapsed, waitPolls>>
  /\ UNCHANGED notStart

(* tick of waitForMapReady at elapsed ms after t0 *)
tick(elapsed) ==
  /\ waitElapsed' = elapsed
  /\ waitPolls' = waitPolls + 1
  /\ waitState' = IF pathsPresent THEN "resolved"
                  ELSE IF elapsed > maxWaitMs THEN "rejected"
                  ELSE "polling"

(* init: loadAll resolves and waitForMapReady runs its first tick, or
   loadAll throws (a CSV missing or empty) and init ends in its catch *)
LoadAllSettles(ok) ==
  /\ waitState = "loading"
  /\ loadAttempts' = loadAttempts + 1
  /\ IF ok THEN tick(0)
     ELSE waitState' = "loadFailed" /\ UNCHANGED <<waitElapsed, waitPolls>>
  /\ UNCHANGED <<pathsPresent, attachAttempts, attachPending, attached>>
  /\ UNCHANGED notStart

(* the timeout of waitForMapReady runs tick again *)
WaitTick(d) ==
  /\ waitState = "polling"
  /\ tick(waitElapsed + d)
  /\ UNCHANGED <<pathsPresent, loadAttempts, attachAttempts, attachPending, attached>>
  /\ UNCHANGED notStart

StartNext ==
  \/ RenderPaths
  \/ Attach
  \/ \E ok \in BOOLEAN : LoadAllSettles(ok)
  \/ \E d \in PollDelays : WaitTick(d)

-----------------------------------------------------------------------------
(* Japan page: the disaster timeline.  The year is a number, or, in the
   variant whose slider handler stores this.value as it is, a string of
   digits; a string is kept by the number it spells.  sliderValue is the
   value last given to the range element, by the user or by a script.  Each
   pending timeout of nestedAutoplay is kept with the forward flag of the
   autoplayYears call it belongs to; timeouts of equal delay run in the
   order they were set. *)

YearMin == 1960
YearMax == 2018
MaxDClicks == 4
MaxChains == 2
MaxSpelled == 99999
(* the years a user drags the slider to or submits in the text box *)
YearInputs == {1960, 1961, 1989, 2017, 2018}
(* what the text box holds at a click on the go-to button: a year, a number
   out of range, or no number *)
TextInputs == YearInputs \cup {1959, 2019, -1}
NotANumber == -1

Num(n) == [str |-> FALSE, v |-> n]
Str(n) == [str |-> TRUE, v |-> n]

(* year += 1: addition on a number, concatenation of "1" on a string *)
PlusOne(y) == IF y.str THEN Str(10 * y.v + 1) ELSE Num(y.v + 1)
(* year -= 1: always a number *)
MinusOne(y) == Num(y.v - 1)

InitDt ==
  /\ parsesInput \in BOOLEAN
  /\ yearVar = Num(YearMin)
  /\ sliderValue = YearMin
  /\ autoplay = FALSE
  /\ chains = <<>>
  /\ rendered = Num(YearMin)
  /\ dClicks = 0
  /\ dLast = "init"

IdleDt ==
  /\ parsesInput = TRUE
  /\ yearVar = Num(YearMin)
  /\ sliderValue = YearMin
  /\ autoplay = FALSE
  /\ chains = <<>>
  /\ rendered = Num(YearMin)
  /\ dClicks = 0
  /\ dLast = "none"

(* slider.oninput *)
SliderInput(val) ==
  /\ dLast # "none"
  /\ dClicks < MaxDClicks
  /\ dClicks' = dClicks + 1
  /\ sliderValue' = val
  /\ autoplay' = FALSE
  /\ yearVar' = IF parsesInput THEN Num(val) ELSE Str(val)
  /\ rendered' = yearVar'
  /\ dLast' = "slider"
  /\ UNCHANGED <<parsesInput, chains>>
  /\ UNCHANGED notDt

(* the click handler of prevButton *)
PrevClick ==
  /\ dLast # "none"
  /\ dClicks < MaxDClicks
  /\ dClicks' = dClicks + 1
  /\ autoplay' = FALSE
  /\ IF yearVar.v # YearMin
     THEN /\ yearVar' = MinusOne(yearVar)
          /\ sliderValue' = yearVar'.v
          /\ rendered' = yearVar'
     ELSE UNCHANGED <<yearVar, sliderValue, rendered>>
  /\ dLast' = "prev"
  /\ UNCHANGED <<parsesInput, chains>>
  /\ UNCHANGED notDt

(* the click handler of nextButton *)
NextClick ==
  /\ dLast # "none"
  /\ dClicks < MaxDClicks
  /\ dClicks' = dClicks + 1
  /\ autoplay' = FALSE
  /\ IF yearVar.v # YearMax
     THEN /\ yearVar.v <= MaxSpelled
          /\ yearVar' = PlusOne(yearVar)
          /\ sliderValue' = yearVar'.v
          /\ rendered' = yearVar'
     ELSE UNCHANGED <<yearVar, sliderValue, rendered>>
  /\ dLast' = "next"
  /\ UNCHANGED <<parsesInput, chains>>
  /\ UNCHANGED notDt

(* the click handler of myButton: go to the year in the text box *)
GoToYear(textValue) ==
  /\ dLast # "none"
  /\ dClicks < MaxDClicks
  /\ dClicks' = dClicks + 1
  /\ IF textValue # NotANumber /\ textValue >= YearMin /\ textValue <= YearMax
     THEN /\ autoplay' = FALSE
          /\ sliderValue' = textValue
          /\ yearVar' = Num(textValue)
          /\ rendered' = yearVar'
     ELSE UNCHANGED <<autoplay, sliderValue, yearVar, rendered>>
  /\ dLast' = "goto"
  /\ UNCHANGED <<parsesInput, chains>>
  /\ UNCHANGED notDt

(* nestedAutoplay with autoplay true, in a chain whose flag is forward: the
   year is shown and rendered, then stepped, and a timeout is set *)
nestedAutoplay(forward, pending) ==
  LET fwd == IF yearVar.v = YearMin THEN TRUE
             ELSE IF yearVar.v = YearMax THEN FALSE ELSE forward
  IN  /\ sliderValue' = yearVar.v
      /\ rendered' = yearVar
      /\ yearVar' = IF fwd THEN PlusOne(yearVar) ELSE MinusOne(yearVar)
      /\ chains' = Append(pending, fwd)

(* the click handler of the autoplay button; autoplayYears runs the first
   nestedAutoplay at once *)
AutoplayClick ==
  /\ dLast # "none"
  /\ dClicks < MaxDClicks
  /\ dClicks' = dClicks + 1
  /\ autoplay' = ~autoplay
  /\ IF ~autoplay
     THEN /\ Len(chains) < MaxChains
          /\ yearVar.v <= MaxSpelled
          /\ nestedAutoplay(yearVar.v # YearMax, chains)
     ELSE UNCHANGED <<yearVar, sliderValue, rendered, chains>>
  /\ dLast' = "autoplay"
  /\ UNCHANGED parsesInput
  /\ UNCHANGED notDt

(* a timeout of nestedAutoplay fires *)
AutoplayTimeout ==
  /\ chains # <<>>
  /\ IF autoplay
     THEN /\ yearVar.v <= MaxSpelled
          /\ nestedAutoplay(Head(chains), Tail(chains))
     ELSE /\ chains' = Tail(chains)
          /\ UNCHANGED <<yearVar, sliderValue, rendered>>
  /\ dLast' = "timeout"
  /\ UNCHANGED <<parsesInput, autoplay, dClicks>>
  /\ UNCHANGED notDt

DtNext ==
  \/ \E val \in YearInputs : SliderInput(val)
  \/ PrevClick
  \/ NextClick
  \/ \E textValue \in TextInputs : GoToYear(textValue)
  \/ AutoplayClick
  \/ AutoplayTimeout

-----------------------------------------------------------------------------
(* Japan page: how the risk layer follows the year slider.  The slider
   belongs to the disaster timeline, whose scripts also assign its value
   (autoplay, prev, next, go to year) without an input event.  The module
   binding currentYear is never assigned; shadePrefectures records its year
   in window.currentYear, kept here as shadedYear. *)

MaxHkInputs == 3
HookYears == 1960..1963
NoSlider == -1
(* the value of let currentYear *)
riskCurrentYear == 1960

(* getSliderYear: the slider's value parsed, currentYear without a slider *)
getSliderYear(value) == IF value = NoSlider THEN riskCurrentYear ELSE value

InitHook ==
  /\ sliderYear \in HookYears \cup {NoSlider}
  /\ lastYear = riskCurrentYear
  /\ shadedYear = NoSlider
  /\ hooked = FALSE
  /\ hkInputs = 0
  /\ hkLast = "init"

IdleHook ==
  /\ sliderYear = riskCurrentYear
  /\ lastYear = riskCurrentYear
  /\ shadedYear = NoSlider
  /\ hooked = FALSE
  /\ hkInputs = 0
  /\ hkLast = "none"

(* init once the map is ready: the first draw, then hookYearChanges *)
FirstDraw ==
  /\ hkLast # "none"
  /\ ~hooked
  /\ shadedYear' = riskCurrentYear
  /\ lastYear' = getSliderYear(sliderYear)
  /\ hooked' = TRUE
  /\ hkLast' = "firstDraw"
  /\ UNCHANGED <<sliderYear, hkInputs>>
  /\ UNCHANGED notHook

(* the user moves the slider: an input event, heard once hooked *)
HookSliderInput(y) ==
  /\ hkLast # "none"
  /\ sliderYear # NoSlider
  /\ hkInputs < MaxHkInputs
  /\ hkInputs' = hkInputs + 1
  /\ sliderYear' = y
  /\ shadedYear' = IF hooked THEN getSliderYear(y) ELSE shadedYear
  /\ hkLast' = "input"
  /\ UNCHANGED <<lastYear, hooked>>
  /\ UNCHANGED notHook

(* a script of the timeline assigns slider.value: no input event *)
ScriptSetsSlider(y) ==
  /\ hkLast # "none"
  /\ sliderYear # NoSlider
  /\ hkInputs < MaxHkInputs
  /\ hkInputs' = hkInputs + 1
  /\ sliderYear' = y
  /\ hkLast' = "script"
  /\ UNCHANGED <<lastYear, shadedYear, hooked>>
  /\ UNCHANGED notHook

(* the interval callback of hookYearChanges *)
Poll ==
  /\ hooked
  /\ LET y == getSliderYear(sliderYear)
     IN  IF y # lastYear
         THEN lastYear' = y /\ shadedYear' = y
         ELSE UNCHANGED <<lastYear, shadedYear>>
  /\ hkLast' = "poll"
  /\ UNCHANGED <<sliderYear, hooked, hkInputs>>
  /\ UNCHANGED notHook

HookNext ==
  \/ FirstDraw
  \/ \E y \in HookYears : HookSliderInput(y)
  \/ \E y \in HookYears : ScriptSetsSlider(y)
  \/ Poll

-----------------------------------------------------------------------------
(* Japan page: the prefecture tooltip.  A body class hides the map's own
   tooltip while the prefecture tooltip is up.  prefStatsMap is defined
   nowhere, so the statistics are always those of the points matched at the
   time of the call; how many points match is an input. *)

MaxTipSteps == 4
EventCounts == 0..2
TipPositions == {"belowRight", "aboveLeft"}
NoElement == "none"

InitTip ==
  /\ bodyDisabled = FALSE
  /\ tipDisplay = "none"
  /\ tipCount = 0
  /\ tipPos = "unset"
  /\ prefLastPointer = FALSE
  /\ prefHoveredEl = NoElement
  /\ tipWasShown = FALSE
  /\ tipSteps = 0
  /\ tipLast = "init"

IdleTip ==
  /\ bodyDisabled = FALSE
  /\ tipDisplay = "none"
  /\ tipCount = 0
  /\ tipPos = "unset"
  /\ prefLastPointer = FALSE
  /\ prefHoveredEl = NoElement
  /\ tipWasShown = FALSE
  /\ tipSteps = 0
  /\ tipLast = "off"

(* computeAndShow that raises the body class whatever it counted *)
computeAndShowClassAlways(eventCount) ==
  IF eventCount = 0
  THEN [disabled |-> TRUE, display |-> "none", count |-> 0]
  ELSE [disabled |-> TRUE, display |-> "block", count |-> eventCount]

(* computeAndShow, by the number of points matched: the body class, the
   tooltip's display and its content *)
computeAndShow(eventCount) ==
  IF eventCount = 0
  THEN [disabled |-> FALSE, display |-> "none", count |-> 0]
  ELSE [disabled |-> TRUE, display |-> "block", count |-> eventCount]

Show(eventCount) ==
  LET r == computeAndShow(eventCount)
  IN  /\ bodyDisabled' = r.disabled
      /\ tipDisplay' = r.display
      /\ tipCount' = r.count
      /\ tipWasShown' = (tipWasShown \/ r.display = "block")

(* the leave listener *)
Hide ==
  /\ bodyDisabled' = FALSE
  /\ tipDisplay' = "none"
  /\ UNCHANGED <<tipCount, tipWasShown>>

(* the pointer enters a prefecture path *)
PointerEnter(eventCount) ==
  /\ tipLast # "off"
  /\ tipSteps < MaxTipSteps
  /\ tipSteps' = tipSteps + 1
  /\ Show(eventCount)
  /\ prefLastPointer' = TRUE
  /\ tipLast' = "enter"
  /\ UNCHANGED <<tipPos, prefHoveredEl>>
  /\ UNCHANGED notTip

(* the pointer moves over a prefecture path: the tooltip is positioned *)
PointerMove(pos) ==
  /\ tipLast # "off"
  /\ tipSteps < MaxTipSteps
  /\ tipSteps' = tipSteps + 1
  /\ tipPos' = pos
  /\ prefLastPointer' = TRUE
  /\ tipLast' = "move"
  /\ UNCHANGED <<bodyDisabled, tipDisplay, tipCount, tipWasShown, prefHoveredEl>>
  /\ UNCHANGED notTip

(* the pointer leaves a prefecture path *)
PointerLeave ==
  /\ tipLast # "off"
  /\ tipSteps < MaxTipSteps
  /\ tipSteps' = tipSteps + 1
  /\ Hide
  /\ prefLastPointer' = TRUE
  /\ tipLast' = "leave"
  /\ UNCHANGED <<tipPos, prefHoveredEl>>
  /\ UNCHANGED notTip

(* window.__prefShowTooltipAtPointer, called by autoplay; prefEl is the
   prefecture under the last pointer position, NoElement if there is none *)
ShowTooltipAtPointer(prefEl, eventCount, pos) ==
  /\ tipLast # "off"
  /\ tipSteps < MaxTipSteps
  /\ tipSteps' = tipSteps + 1
  /\ IF ~prefLastPointer
     THEN /\ tipLast' = "noPointer"
          /\ UNCHANGED <<bodyDisabled, tipDisplay, tipCount, tipWasShown, tipPos, prefHoveredEl>>
     ELSE IF prefEl = NoElement
     THEN /\ prefHoveredEl' = NoElement
          /\ IF prefHoveredEl # NoElement
             THEN Hide /\ tipLast' = "leave"
             ELSE /\ tipLast' = "nothing"
                  /\ UNCHANGED <<bodyDisabled, tipDisplay, tipCount, tipWasShown>>
          /\ UNCHANGED tipPos
     ELSE IF prefEl # prefHoveredEl
     THEN /\ Show(eventCount)
          /\ tipPos' = pos
          /\ prefHoveredEl' = prefEl
          /\ tipLast' = "enter"
     ELSE /\ Show(eventCount)
          /\ tipLast' = "refresh"
          /\ UNCHANGED <<tipPos, prefHoveredEl>>
  /\ UNCHANGED prefLastPointer
  /\ UNCHANGED notTip

(* window.__prefHideTooltip *)
HideTooltip ==
  /\ tipLast # "off"
  /\ tipSteps < MaxTipSteps
  /\ tipSteps' = tipSteps + 1
  /\ IF prefHoveredEl # NoElement
     THEN Hide /\ tipLast' = "leave"
     ELSE /\ tipLast' = "nothing"
          /\ UNCHANGED <<bodyDisabled, tipDisplay, tipCount, tipWasShown>>
  /\ prefHoveredEl' = NoElement
  /\ UNCHANGED <<tipPos, prefLastPointer>>
  /\ UNCHANGED notTip

TipNext ==
  \/ \E n \in EventCounts : PointerEnter(n)
  \/ \E pos \in TipPositions : PointerMove(pos)
  \/ PointerLeave
  \/ \E el \in Prefectures \cup {NoElement}, n \in EventCounts, pos \in TipPositions :
       ShowTooltipAtPointer(el, n, pos)
  \/ HideTooltip

-----------------------------------------------------------------------------
(* The point layers and their data joins.  selection.data(data, key) binds
   as d3 documents it: of several nodes with one key the later ones exit, of
   several data with one key the later ones enter.  Three renderers: the
   world map's plotPoints (key id ?? iso3 ?? __idx, exit removed at once),
   the Japan map's renderDisasterPoints with a keyed join (key of type,
   rounded coordinates and year; exit fades out before it is removed), and
   the Japan map's renderDisasterPoints that removes every circle and joins
   without a key. *)

MaxRenders == 3
Absent == "undefined"
Renderers == {"world", "keyed", "plain"}
JoinYears == {1960, 1961}
JoinTypes == {"storm", "flood"}

JoinRow(i, id, iso3, type, pos, yr, finite) ==
  [idx |-> i, id |-> id, iso3 |-> iso3, type |-> type, pos |-> pos, year |-> yr,
   finite |-> finite]

(* the rows of the CSV, in file order; pos is the pair of coordinates
   rounded to three digits *)
JoinRows ==
  << JoinRow(1, Absent, "JPN", "storm", "a", 1960, TRUE),
     JoinRow(2, Absent, "JPN", "storm", "a", 1960, TRUE),
     JoinRow(3, "e7", "USA", "flood", "b", 1960, TRUE),
     JoinRow(4, "e7", "USA", "flood", "c", 1960, TRUE),
     JoinRow(5, Absent, Absent, "storm", "a", 1961, TRUE),
     JoinRow(6, Absent, "JPN", "flood", "", 1960, FALSE),
     JoinRow(7, Absent, "JPN", "storm", "a", 1961, TRUE) >>

IdxStr == <<"1", "2", "3", "4", "5", "6", "7">>

(* the filter of the renderers: coordinates, year, active categories *)
Matches(r, yr, active) == r.finite /\ r.year = yr /\ r.type \in active

validData(yr, active) ==
  SelectSeq([i \in 1..Len(JoinRows) |-> i],
            LAMBDA i : Matches(JoinRows[i], yr, active))

(* d => d.id ?? d.iso3 ?? d.__idx *)
keyWorld(r) ==
  IF r.id # Absent THEN r.id ELSE IF r.iso3 # Absent THEN r.iso3 ELSE IdxStr[r.idx]

(* keyFn: type | lon.toFixed(3),lat.toFixed(3) | year *)
keyFn(r) == <<r.type, r.pos, r.year>>

(* the first node with the key, 0 without one *)
FirstWithKey(keys, k) ==
  IF \E i \in 1..Len(keys) : keys[i] = k
  THEN CHOOSE i \in 1..Len(keys) : keys[i] = k /\ \A i2 \in 1..(i - 1) : keys[i2] # k
  ELSE 0

FirstDatum(dataKeys, j) == \A j2 \in 1..(j - 1) : dataKeys[j2] # dataKeys[j]

(* the keyed bind of selection.data: for each datum the node it updates (0
   for none), the data that enter, the nodes that exit *)
bindKey(nodeKeys, dataKeys) ==
  LET upd == [j \in 1..Len(dataKeys) |->
                IF FirstDatum(dataKeys, j) THEN FirstWithKey(nodeKeys, dataKeys[j]) ELSE 0]
  IN  [update |-> upd,
       enter  |-> {j \in 1..Len(dataKeys) : upd[j] = 0},
       exit   |-> {i \in 1..Len(nodeKeys) : \A j \in 1..Len(dataKeys) : upd[j] # i}]

Circle(row, exiting) == [row |-> row, exiting |-> exiting]

(* the layer after a keyed join: updated nodes carry their new datum, exit
   nodes are removed or left fading, entered data are appended *)
Joined(nodes, data, b, fades) ==
  LET kept == [i \in 1..Len(nodes) |->
                 IF i \in b.exit THEN Circle(nodes[i].row, TRUE)
                 ELSE Circle(data[CHOOSE j \in 1..Len(data) :
                                    b.update[j] = i /\ \A j2 \in (j + 1)..Len(data) : b.update[j2] # i],
                             FALSE)]
      stay == SelectSeq(kept, LAMBDA c : fades \/ ~c.exiting)
      new  == SelectSeq([j \in 1..Len(data) |-> IF j \in b.enter THEN Circle(data[j], FALSE)
                                                 ELSE Circle(0, TRUE)],
                        LAMBDA c : c.row # 0)
  IN  stay \o new

RowsOf(nodes) == [i \in 1..Len(nodes) |-> JoinRows[nodes[i].row]]

InitJoin ==
  /\ renderer \in Renderers
  /\ layer = <<>>
  /\ joinData = <<>>
  /\ renders = 0
  /\ joinLast = "init"

IdleJoin ==
  /\ renderer = "none"
  /\ layer = <<>>
  /\ joinData = <<>>
  /\ renders = 0
  /\ joinLast = "none"

(* plotPoints / renderDisasterPoints for a year and a set of categories *)
Render(yr, active) ==
  /\ renderer \in Renderers
  /\ renders < MaxRenders
  /\ renders' = renders + 1
  /\ LET data == validData(yr, active)
         rows == [j \in 1..Len(data) |-> JoinRows[data[j]]]
     IN  /\ joinData' = data
         /\ layer' =
              IF renderer = "world"
              THEN Joined(layer, data,
                          bindKey([i \in 1..Len(layer) |-> keyWorld(RowsOf(layer)[i])],
                                  [j \in 1..Len(data) |-> keyWorld(rows[j])]), FALSE)
              ELSE IF renderer = "keyed"
              THEN Joined(layer, data,
                          bindKey([i \in 1..Len(layer) |-> keyFn(RowsOf(layer)[i])],
                                  [j \in 1..Len(data) |-> keyFn(rows[j])]), TRUE)
              ELSE [j \in 1..Len(data) |-> Circle(data[j], FALSE)]
  /\ joinLast' = "render"
  /\ UNCHANGED renderer
  /\ UNCHANGED notJoin

(* the exit transition of a circle ends: it is removed *)
ExitEnd(i) ==
  /\ i \in 1..Len(layer)
  /\ layer[i].exiting
  /\ layer' = [j \in 1..(Len(layer) - 1) |-> IF j < i THEN layer[j] ELSE layer[j + 1]]
  /\ joinLast' = "exitEnd"
  /\ UNCHANGED <<renderer, joinData, renders>>
  /\ UNCHANGED notJoin

JoinNext ==
  \/ \E yr \in JoinYears, active \in SUBSET JoinTypes : Render(yr, active)
  \/ \E i \in 1..(MaxRenders * Len(JoinRows)) : ExitEnd(i)

-----------------------------------------------------------------------------
(* Specifications *)

(* clampTransform applied once and again to a transform *)
InitClampSpec == InitClamp /\ IdleRisk /\ IdleWorld /\ IdleJapan /\ IdleTimeline /\ IdleStart /\ IdleDt /\ IdleHook /\ IdleTip /\ IdleJoin
SpecClamp == InitClampSpec /\ [][ApplyClamp]_vars

(* the risk layer: a CSV is loaded and densified, then years are shaded *)
InitRiskSpec == InitRisk /\ IdleClamp /\ IdleWorld /\ IdleJapan /\ IdleTimeline /\ IdleStart /\ IdleDt /\ IdleHook /\ IdleTip /\ IdleJoin
SpecRisk == InitRiskSpec /\ [][RiskNext]_vars

(* the world map page *)
InitWorldSpec == InitWorld /\ wBudget = MaxAnims /\ IdleRisk /\ IdleClamp /\ IdleJapan /\ IdleTimeline /\ IdleStart /\ IdleDt /\ IdleHook /\ IdleTip /\ IdleJoin
SpecWorld == InitWorldSpec /\ [][WorldNext]_vars

(* the Japan map page *)
InitJapanSpec == InitJapan /\ IdleRisk /\ IdleClamp /\ IdleWorld /\ IdleTimeline /\ IdleStart /\ IdleDt /\ IdleHook /\ IdleTip /\ IdleJoin
SpecJapan == InitJapanSpec /\ [][JapanNext]_vars

(* the world map page with the disaster CSV: timeline, swatches, points *)
InitTimelineSpec ==
  /\ InitWorld /\ ~prefersReduced /\ ~popColumns /\ wBudget = 0
  /\ IdleRisk /\ IdleClamp /\ IdleJapan /\ InitTimeline /\ IdleStart /\ IdleDt /\ IdleHook /\ IdleTip /\ IdleJoin
SpecTimeline == InitTimelineSpec /\ [][TimelineNext]_vars

(* the same, with the interval firing as long as it is registered *)
SpecTimelineFair == InitTimelineSpec /\ [][TimelineNext]_vars /\ WF_vars(Tick)

(* the world map page: zoom animations, reset, cancel functions *)
InitZoomSpec ==
  /\ InitWorld /\ ~prefersReduced /\ ~popColumns /\ wBudget = MaxZoomAnims
  /\ IdleRisk /\ IdleClamp /\ IdleJapan /\ IdleTimeline /\ IdleStart /\ IdleDt /\ IdleHook /\ IdleTip /\ IdleJoin
SpecZoom == InitZoomSpec /\ [][ZoomNext]_vars
SpecAnim == InitZoomSpec /\ [][AnimNext]_vars

(* either map page in a browser that asks for reduced motion *)
InitReducedSpec ==
  /\ prefersReduced = TRUE
  /\ \/ InitWorld /\ wBudget = MaxAnims /\ IdleJapan
     \/ InitJapan /\ NoWorldPage
  /\ IdleRisk /\ IdleClamp /\ IdleTimeline /\ IdleStart /\ IdleDt /\ IdleHook /\ IdleTip /\ IdleJoin
ReducedNext ==
  \/ \E f \in Features : ClickCountry(f)
  \/ ResetClick
  \/ \E up \in BOOLEAN : Wheel(up)
  \/ JapanNext
SpecReduced == InitReducedSpec /\ [][ReducedNext]_vars

(* the Japan page while its scripts start *)
InitStartSpec ==
  /\ InitStart /\ IdleDt /\ IdleHook /\ IdleTip /\ IdleJoin /\ IdleRisk /\ IdleClamp /\ IdleWorld /\ IdleJapan /\ IdleTimeline
SpecStart == InitStartSpec /\ [][StartNext]_vars

(* the Japan page: disaster timeline controls and autoplay *)
InitDtSpec ==
  /\ InitDt /\ IdleHook /\ IdleTip /\ IdleJoin /\ IdleRisk /\ IdleClamp /\ IdleWorld /\ IdleJapan /\ IdleTimeline /\ IdleStart
SpecDt == InitDtSpec /\ [][DtNext]_vars

(* the Japan page: the risk layer following the year slider *)
InitHookSpec ==
  /\ InitHook /\ IdleTip /\ IdleJoin /\ IdleRisk /\ IdleClamp /\ IdleWorld /\ IdleJapan /\ IdleTimeline /\ IdleStart /\ IdleDt
SpecHook == InitHookSpec /\ [][HookNext]_vars
(* the same; the interval fires again and again, init reaches its first draw *)
SpecHookFair == SpecHook /\ WF_vars(Poll) /\ WF_vars(FirstDraw)

(* the Japan page: the prefecture tooltip and the body class *)
InitTipSpec ==
  /\ InitTip /\ IdleJoin /\ IdleRisk /\ IdleClamp /\ IdleWorld /\ IdleJapan /\ IdleTimeline /\ IdleStart /\ IdleDt /\ IdleHook
SpecTip == InitTipSpec /\ [][TipNext]_vars

(* the point layers: renders and the ends of exit transitions *)
InitJoinSpec ==
  /\ InitJoin /\ IdleRisk /\ IdleClamp /\ IdleWorld /\ IdleJapan /\ IdleTimeline /\ IdleStart /\ IdleDt /\ IdleHook /\ IdleTip
SpecJoin == InitJoinSpec /\ [][JoinNext]_vars

(* either map page *)
InitMaps == InitWorldSpec \/ InitJapanSpec
SpecMaps == InitMaps /\ [][WorldNext \/ JapanNext]_vars

-----------------------------------------------------------------------------
(* Properties *)

PendingFrames == {i \in 1..Len(wAnims) : wAnims[i].raf}
Overlays      == {i \in 1..Len(wAnims) : wAnims[i].overlay}

(* C1: at any time at most one scripted animation of the world map has a
   pending frame callback and at most one zoom overlay element exists. *)
C1_OneAnimationAtATime ==
  /\ Cardinality(PendingFrames) <= 1
  /\ Cardinality(Overlays) <= 1

(* scale in [minK, maxK] and, per axis, translate in
   [min(0, size - size * k) - VIEW_PADDING, VIEW_PADDING] *)
WithinBounds(t) ==
  /\ K(minK) <= t.k /\ t.k <= K(maxK)
  /\ Min(0, width - Scaled(width, t.k)) - VIEW_PADDING <= t.x /\ t.x <= VIEW_PADDING
  /\ Min(0, height - Scaled(height, t.k)) - VIEW_PADDING <= t.y /\ t.y <= VIEW_PADDING

(* C2: after any sequence of clicks, resets, wheel zooms and drags, the
   transform rendered on the map group and the transform the next zoom or
   reset operation reads back are both within the bounds. *)
C2_TransformWithinBounds ==
  /\ WithinBounds(wG)
  /\ WithinBounds(wZoom)

SparsePrefs == {riskRowsSparse[i].prefecture_norm : i \in 1..Len(riskRowsSparse)}
DomainYears == yearsDomain[1]..yearsDomain[2]
DenseRowsOf(p, y) ==
  {j \in 1..Len(riskRows) : riskRows[j].prefecture_norm = p /\ riskRows[j].year = y}

(* C3: after densification every region and every year of [minYear, maxYear]
   has exactly one row under the key region::year, the lookup shadePrefectures
   makes is never undefined, and no key occurs twice. *)
C3_DenseComplete ==
  riskLoaded =>
    /\ \A p \in SparsePrefs, y \in DomainYears :
         /\ RiskKey(p, y) \in DOMAIN riskByPrefYear
         /\ riskByPrefYear[RiskKey(p, y)].prefecture_norm = p
         /\ riskByPrefYear[RiskKey(p, y)].year = y
         /\ Cardinality(DenseRowsOf(p, y)) = 1
    /\ Len(riskRows) = Cardinality(DOMAIN riskByPrefYear)
    /\ shadeYear \in DomainYears =>
         \A p \in SparsePrefs \cap MapPrefNorms : shadeFill[p].hit

(* a CSV with a year repeated and a gap to fill has been densified and shaded *)
C3_Witness ==
  /\ riskLoaded
  /\ \E j \in 1..Len(riskRows) : riskRows[j].synthetic
  /\ \E i, j \in 1..Len(riskRowsSparse) :
       /\ i # j
       /\ riskRowsSparse[i].prefecture_norm = riskRowsSparse[j].prefecture_norm
       /\ riskRowsSparse[i].year = riskRowsSparse[j].year
  /\ shadeYear \in DomainYears
  /\ \E p \in MapPrefNorms : shadeFill[p].hit

(* The decay rate configured for a region, in tenths: that of its latest row
   which specifies one, 0.1 when none does *)
RECURSIVE ConfiguredAlpha(_, _)
ConfiguredAlpha(sorted, i) ==
  IF i = 0 THEN 1
  ELSE IF sorted[i].decay_alpha.kind = "num" THEN sorted[i].decay_alpha.v
  ELSE ConfiguredAlpha(sorted, i - 1)

RealYears(p) ==
  {riskRowsSparse[i].year : i \in {j \in 1..Len(riskRowsSparse) :
                                     riskRowsSparse[j].prefecture_norm = p}}

(* C4: a year t without a real observation, after the last year t0 that has
   one, carries value(t0) * (1 - alpha)^(t - t0), alpha the region's
   configured rate or 0.1. *)
C4_DecayFormula ==
  riskLoaded =>
    \A p \in SparsePrefs, t \in DomainYears :
      LET before == {y \in RealYears(p) : y <= t}
      IN  (t \notin RealYears(p) /\ before # {}) =>
            LET t0     == SetMax(before)
                sorted == SortByYear(SelectSeq(riskRowsSparse,
                                      LAMBDA r : r.prefecture_norm = p))
                alpha  == ConfiguredAlpha(sorted, Len(sorted))
                v0     == riskByPrefYear[RiskKey(p, t0)].risk_final
            IN  riskByPrefYear[RiskKey(p, t)].risk_final
                  = Rat(v0[1] * Pow(10 - alpha, t - t0), v0[2] * Pow(10, t - t0))

(* C5: once every highlight timer and fill transition has finished, each
   country's fill is the colour renderForYear computed last and no country
   keeps a data-prev-fill attribute. *)
C5_FillsSettle ==
  (wAnims = <<>> /\ \A c \in Countries : fillTr[c].state = "none") =>
    \A c \in Countries :
      /\ fill[c] = Choropleth(c, currentYear)
      /\ prevFill[c] = NullAttr

(* C6: the indicators drawn for a prefecture-to-prefecture animation stay in
   the DOM while that animation runs: no cleanup timer of an earlier
   animation removes them. *)
C6_IndicatorsOutliveAnimation ==
  currentAnimationId.kind = "move" => jIndicators = currentAnimationId.id

(* C7, for the Japan prefecture map: a click on the prefecture whose zoom-in
   has finished starts a zoom-out, and the zoom-out that completes leaves the
   identity transform. *)
C7_JapanSecondClickZoomsOut ==
  /\ (jLast.ev = "click" /\ jLast.again) => currentAnimationId.kind = "out"
  /\ (jLast.ev = "done" /\ jLast.again) => (jLast.kind = "out" /\ jT = JapanIdentity)
  /\ (jLast.ev = "done" /\ jLast.kind = "out") => jT = JapanIdentity

(* the second click's zoom-out has completed, after a wheel or drag gesture *)
C7_Witness ==
  /\ jLast.ev = "done"
  /\ jLast.kind = "out"
  /\ jLast.again
  /\ jGestures > 0
  /\ jT = JapanIdentity

(* C7 as stated, for either map: a click on the region whose zoom-in has
   finished starts a zoom-out that ends at the identity. *)
C7_SecondClickZoomsOut ==
  /\ C7_JapanSecondClickZoomsOut
  /\ (wLast.ev \in {"click", "zoomInstant"} /\ wLast.again) =>
       \E i \in 1..Len(wAnims) : wAnims[i].kind = "out" /\ wAnims[i].raf

(* C8: when animateZoomToFeature has drawn its last frame, the transform is
   the one zoomToFeature sets: clampTransform of
   {W/2 - k * cx, H/2 - k * cy, k}. *)
C8_ZoomInEndsCentred ==
  wLast.ev = "zoomInDone" =>
    LET f == Feature(wLast.f)
        t == clampTransform(T(width \div 2 - Scaled(f.cx, K(3)),
                              height \div 2 - Scaled(f.cy, K(3)), K(3)))
    IN  /\ wZoom = t
        /\ wG = t
        /\ wZoom = zoomToFeature(wLast.f, K(3), wZoom)

(* an animation towards the corner feature has completed, and clamping moved
   its centroid off the viewport centre *)
C8_Witness ==
  /\ wLast.ev = "zoomInDone"
  /\ wLast.f = "B"
  /\ wGestures > 0
  /\ wZoom.x + Scaled(Feature("B").cx, wZoom.k) # width \div 2

(* C9: clampTransform(clampTransform(t)) = clampTransform(t). *)
C9_ClampIdempotent ==
  Len(clampRes) = 2 => clampRes[2] = clampRes[1]

(* a transform that clamping changes has been clamped twice *)
C9_Witness ==
  /\ Len(clampRes) = 2
  /\ clampRes[1] # clampArg

(* C10: at the default scale no drag gesture of any kind is accepted. *)
C10_NoDragAtDefaultScale ==
  [][(wZoom.k = K(minK) /\ wGestures' # wGestures)
       => wLast'.ev \notin {"mouseDrag", "touchDrag"}]_vars

(* C11: in the world-map timeline isPlaying is true exactly when an interval
   timer is registered and exactly when the year slider is disabled; stopped,
   no timer is pending and the slider is enabled. *)
C11_PlayingIffTimerIffDisabled ==
  /\ isPlaying <=> playTimer # 0
  /\ isPlaying <=> sliderDisabled

(* playback is running and its interval has fired *)
C11_Witness == isPlaying /\ tLast.cur.ev = "tick" /\ tLast.prev.ev = "play"

Stopped == ~isPlaying /\ playTimer = 0 /\ ~sliderDisabled

(* C12: playback, once started, reaches the stopped state, timer cleared and
   slider enabled, and never runs more interval callbacks than there are
   available years. *)
C12_PlaybackStops ==
  /\ [](tTicks <= Len(availableYears))
  /\ (isPlaying ~> Stopped)

(* playback from the first year has stopped by itself on its last callback *)
C12_Witness ==
  /\ Stopped
  /\ tLast.cur.ev = "tick"
  /\ tTicks = Len(availableYears)

(* the swatch's category, by the test plotPoints filters with *)
BelongsTo(p, key) == matches(key, p.type)

(* C13: a swatch toggled off and at once on again leaves the rendered points
   as they were before the two clicks; no rendered point belongs to a
   category whose flag is off. *)
C13_ToggleOffOnRestores ==
  /\ ( /\ tLast.cur.ev = "swatch" /\ ~tLast.cur.nowOff
       /\ tLast.prev.ev = "swatch" /\ tLast.prev.nowOff
       /\ tLast.prev.key = tLast.cur.key )
     => points = tLast.prev.before
  /\ \A key \in SwatchKeys : flag(swatchState, key) =>
       ~\E p \in points : BelongsTo(p, key)

NotFlagsObject == {"missing", "unparseable", "null", "primitive", "array"}

(* C16: with a missing or corrupt swatchState entry the map is drawn, every
   category starts enabled, and each swatch click writes the toggle state,
   the swatches that are off, back to the entry. *)
C16_CorruptEntryDefaults ==
  storedAtLoad.kind \in NotFlagsObject =>
    /\ drawn = "ok"
    /\ tLast.cur.ev = "init" => toggledAttr = {} /\ points = plotPointsUnfiltered(currentYear, FALSE, swatchState)
    /\ tLast.cur.ev = "swatch" => stored = Entry("object", toggledAttr)

(* C14: once the function animateZoomToFeature returned has been called, that
   animation has no frame callback, no overlay and no highlight timer left,
   and right after the call every country that had a saved fill has it as
   its fill again, with no data-prev-fill attribute on any country. *)
C14_CancelStopsAndRestores ==
  /\ \A i \in 1..Len(wAnims) :
       wAnims[i].cancelled =>
         ~wAnims[i].raf /\ ~wAnims[i].overlay /\ wAnims[i].hl = "none"
  /\ wHist.cancelF # "none" =>
       \A c \in Countries :
         /\ prevFill[c] = NullAttr
         /\ wHist.saved[c] # NullAttr => fill[c] = wHist.saved[c]

(* C15: a reset animation that runs to its end with no other change of the
   transform in between leaves the identity transform, and once its
   completion timeout has fired no country has a data-prev-fill attribute
   or the highlight colour as fill. *)
C15_ResetEndsAtIdentityUnhighlighted ==
  /\ wHist.reset \in {"done", "cleared"} => wZoom = Identity /\ wG = Identity
  /\ wHist.reset = "cleared" =>
       \A c \in Countries : prevFill[c] = NullAttr /\ fill[c] # ORANGE

(* the step is a click on the feature f *)
ClickOn(f) == wLast'.ev \in {"click", "zoomInstant", "noZoom"} /\ wLast'.f = f
(* the centroid of f is on the screen at the centre of the viewport *)
CentroidAtCentre(f) ==
  /\ Feature(f).finite
  /\ wZoom.x + Scaled(Feature(f).cx, wZoom.k) = width \div 2
  /\ wZoom.y + Scaled(Feature(f).cy, wZoom.k) = height \div 2
DegeneratePath(f) == ~prefersReduced /\ (~Feature(f).finite \/ CentroidAtCentre(f))
NothingScheduled == wAnims' = wAnims /\ wStarted' = wStarted /\ fillTr' = fillTr

(* C19 as stated: a click whose zoom-in path is degenerate creates no
   overlay, frame callback or highlight timer, and sets the transform at
   once to the clamped centred transform at the target scale. *)
C19_DegenerateSetsCentred ==
  [][\A f \in Features : ClickOn(f) /\ DegeneratePath(f) =>
       /\ NothingScheduled
       /\ wZoom'.k = K(3)
       /\ Feature(f).finite => wZoom' = CentredOn(f, K(3)) /\ wG' = wZoom']_vars

(* C19, amended: a click whose zoom-in path is degenerate creates no
   overlay, frame callback or highlight timer; when the centroid is finite
   the transform is set at once to the clamped centred transform at the
   target scale, and when it is not the transform is left as it is. *)
C19_DegenerateIsInstantOrNothing ==
  [][\A f \in Features : ClickOn(f) /\ DegeneratePath(f) =>
       /\ NothingScheduled
       /\ IF Feature(f).finite
          THEN wZoom' = CentredOn(f, K(3)) /\ wG' = wZoom' /\ ~wSvgTr'
          ELSE wZoom' = wZoom /\ wG' = wG /\ wSvgTr' = wSvgTr]_vars

(* a click on the feature the view is centred on took the instant path *)
C19_Witness ==
  /\ ~prefersReduced
  /\ wLast.ev = "zoomInstant" /\ wLast.again
  /\ wZoom = CentredOn(wLast.f, K(3))
  /\ wAnims = <<>>

(* C20: a prefecture path without a candidate name property is stamped the
   empty norm, no risk row is joined to it, every shadePrefectures gives it
   the no-data fill, and the same pass paints each other path that has a
   row of the year. *)
C20_UnnamedIsNoData ==
  \A p \in UnnamedPaths :
    /\ prefNorm(p) = ""
    /\ shadeFill[p] = NoDataFill
    /\ riskLoaded /\ shadeYear \in DomainYears =>
         \A q \in SparsePrefs \cap MapPrefNorms :
           shadeFill[q] = [hit |-> TRUE, val |-> riskByPrefYear[RiskKey(q, shadeYear)].risk_final]

(* a year was shaded for which the CSV has a row of empty prefecture_norm,
   and a named prefecture was painted in the same pass *)
C20_Witness ==
  /\ riskLoaded
  /\ RiskKey("", shadeYear) \in DOMAIN riskByPrefYear
  /\ \E q \in MapPrefNorms : shadeFill[q].hit

(* C18: with reduced motion requested, a click on a region or on reset sets
   the target transform in one step and leaves no frame callback pending,
   on the world map and on the Japan prefecture map. *)
C18_ReducedMotionIsInstant ==
  prefersReduced =>
    /\ wAnims = <<>> /\ ~wSvgTr
    /\ wLast.ev \in {"zoomInstant", "resetInstant"} => wG = clampTransform(wZoom)
    /\ currentAnimationId = NoAnimation /\ ~isAnimating

(* C17 as stated: no operation is attempted again after it failed or found
   its precondition unmet. *)
C17_NoRetry ==
  /\ loadAttempts <= 1
  /\ attachAttempts <= 1
  /\ waitPolls <= 1

(* C17, amended: a failed load is not retried; the two operations that wait
   for the prefecture paths are retried a bounded number of times, the
   attachment at most AttachRetryLimit times after its first attempt, the
   poll of waitForMapReady until more than maxWaitMs have passed, and once
   they have given up nothing more is scheduled. *)
C17_RetriesBounded ==
  /\ loadAttempts <= 1
  /\ waitState = "loadFailed" => waitPolls = 0
  /\ attachAttempts <= AttachRetryLimit + 1
  /\ attachAttempts = AttachRetryLimit + 1 => ~attachPending
  /\ attached => ~attachPending
  /\ waitPolls <= maxWaitMs \div PollMs + 2
  /\ waitState = "polling" => waitElapsed <= maxWaitMs
  /\ waitState = "rejected" => waitElapsed > maxWaitMs

(* both waits gave up after their last retry: the paths never came *)
C17_Witness ==
  /\ attachAttempts = AttachRetryLimit + 1 /\ ~attached /\ ~attachPending
  /\ waitState = "rejected" /\ waitPolls > 1

(* n1/d1 <= n2/d2 for non-negative rationals, by their continued fractions *)
RECURSIVE RatLeq(_, _, _, _)
RatLeq(n1, d1, n2, d2) ==
  LET q1 == n1 \div d1
      q2 == n2 \div d2
      r1 == n1 % d1
      r2 == n2 % d2
  IN  IF q1 # q2 THEN q1 < q2
      ELSE IF r1 = 0 THEN TRUE
      ELSE IF r2 = 0 THEN FALSE
      ELSE RatLeq(d2, r2, d1, r1)

SyntheticRows == {j \in 1..Len(riskRows) : riskRows[j].synthetic}
PositiveBefore(p, y) ==
  \E i \in 1..Len(riskRowsSparse) :
    /\ riskRowsSparse[i].prefecture_norm = p
    /\ riskRowsSparse[i].year < y
    /\ riskRowsSparse[i].risk_final > 0

(* C21: a synthetic row has a value other than 0 only if the CSV has a row
   of the same region, of an earlier year, with a positive value; a region
   without any row of the CSV is never painted with a value. *)
C21_SyntheticNeedsEarlierPositive ==
  riskLoaded =>
    /\ \A j \in SyntheticRows :
         riskRows[j].risk_final # Rat(0, 1) =>
           PositiveBefore(riskRows[j].prefecture_norm, riskRows[j].year)
    /\ \A p \in PrefPaths : shadeFill[p].hit => prefNorm(p) \in SparsePrefs

(* a region has synthetic rows before its first row of the CSV, all 0, and
   a synthetic row with a value after it *)
C21_Witness ==
  /\ riskLoaded
  /\ \E j, k \in SyntheticRows :
       /\ riskRows[j].prefecture_norm = riskRows[k].prefecture_norm
       /\ riskRows[j].year < SetMin(RealYears(riskRows[j].prefecture_norm))
       /\ riskRows[j].risk_final = Rat(0, 1)
       /\ riskRows[k].risk_final # Rat(0, 1)

DenseValue(p, y) == riskByPrefYear[RiskKey(p, y)].risk_final

(* C22: from a year to the next, when the next has no row of the CSV, the
   value does not grow; so across the years between two rows of a region,
   and after the last, the values never grow and never exceed the value of
   the row before them. *)
C22_DecayNonIncreasing ==
  riskLoaded =>
    \A p \in SparsePrefs, y \in DomainYears :
      (y + 1 \in DomainYears /\ riskByPrefYear[RiskKey(p, y + 1)].synthetic) =>
        RatLeq(DenseValue(p, y + 1)[1], DenseValue(p, y + 1)[2],
               DenseValue(p, y)[1], DenseValue(p, y)[2])

(* two synthetic years in a row after a positive row, each lower than the
   year before *)
C22_Witness ==
  /\ riskLoaded
  /\ \E p \in SparsePrefs, y \in DomainYears :
       /\ y + 2 \in DomainYears
       /\ ~riskByPrefYear[RiskKey(p, y)].synthetic
       /\ riskByPrefYear[RiskKey(p, y + 1)].synthetic
       /\ riskByPrefYear[RiskKey(p, y + 2)].synthetic
       /\ DenseValue(p, y + 2) # Rat(0, 1)
       /\ DenseValue(p, y + 1) # DenseValue(p, y)
       /\ DenseValue(p, y + 2) # DenseValue(p, y + 1)

(* C23: playback starts at the selected year, and while playing the year
   on display does not go down from a tick to the next, whatever slider
   year was selected. *)
C23_PlaybackNeverGoesBack ==
  [][/\ (~isPlaying /\ isPlaying') => currentYear' = currentYear
     /\ isPlaying' => currentYear' >= currentYear]_vars

(* C24: while playback is not active, the points on the layer are those of
   the current year that no disabled category hides; points of earlier
   years are on the layer only while playback is active. *)
C24_StoppedShowsCurrentYearOnly ==
  (drawn = "ok" /\ ~isPlaying) =>
    /\ points = plotPoints(currentYear, FALSE, swatchState)
    /\ \A pt \in points : pt.year = currentYear


(* C25: on the Japan disaster timeline, after any sequence of slider inputs,
   prev/next clicks, go-to-year submissions, play/pause clicks and autoplay
   ticks, year is an integer in [1960, 2018] and equals the slider's value. *)
C25_YearInRangeAndOnSlider ==
  dLast # "none" =>
    /\ ~yearVar.str
    /\ yearVar.v \in YearMin..YearMax
    /\ yearVar.v = sliderValue

(* C26: at most one autoplay timer chain is pending at any time, so each
   autoplay interval advances the year by exactly one step. *)
C26_OneChain == Len(chains) <= 1

(* C27: once the slider rests on a year, the prefectures come to be shaded
   for exactly that year and stay so, from the first draw on and whatever
   value the slider starts with; the polling loop picks up a change that
   came without an input event.  As the year cannot settle before the next
   run of the interval callback: every run of the callback leaves the
   prefectures shaded for the slider's year. *)
C27_PollLeavesSliderYearShaded ==
  [][(hkLast' = "poll" /\ sliderYear' # NoSlider) => shadedYear' = sliderYear']_vars

(* the same as a property of whole runs, for the interval firing for ever *)
C27_RestingSliderIsShaded ==
  \A y \in HookYears : <>[](sliderYear = y) => <>[](shadedYear = y)

(* C28: on the Japan map, with no animation in flight the tracked state
   (currentZoomLevel, currentViewCenter) describes the transform applied to
   the map, also after wheel and drag gestures; after a completed move from
   prefecture to prefecture currentViewCenter is the centroid of the target. *)
C28_TrackedStateIsApplied ==
  (jLoaded /\ ~isAnimating /\ currentAnimationId = NoAnimation) =>
    /\ jT = viewTransform(currentZoomLevel, currentViewCenter)
    /\ (jLast.ev = "done" /\ jLast.kind = "move") => currentViewCenter = centroid(jLast.p)

(* C28, the part about gestures alone: a wheel or drag gesture leaves the
   tracked state describing the applied transform. *)
C28_GestureKeepsTracked ==
  (jLoaded /\ jLast.ev \in {"wheel", "drag"} /\ ~isAnimating) =>
    jT = viewTransform(currentZoomLevel, currentViewCenter)

(* C28, the part about moves alone *)
C28_MoveEndsAtCentroid ==
  (jLoaded /\ jLast.ev = "done" /\ jLast.kind = "move") =>
    /\ currentViewCenter = centroid(jLast.p)
    /\ jT = viewTransform(currentZoomLevel, currentViewCenter)

(* C29: after every enter, refresh and leave listener of the prefecture
   tooltip, body carries pref-tooltip-disabled exactly when the prefecture
   tooltip is displayed; after a leave the class is absent and the tooltip
   hidden. *)
C29_ClassIffTooltipShown ==
  /\ tipLast \in {"enter", "refresh", "leave"} => (bodyDisabled <=> tipDisplay = "block")
  /\ tipLast = "leave" => (~bodyDisabled /\ tipDisplay = "none")

(* a prefecture without points was entered after the tooltip had been up *)
C29_Witness ==
  /\ tipLast = "enter" /\ tipWasShown /\ tipCount = 0
  /\ ~bodyDisabled /\ tipDisplay = "none"

(* the circles of the layer bound to a row, and those of them that are not
   fading out *)
CirclesOf(row) == {i \in 1..Len(layer) : layer[i].row = row}
LiveCirclesOf(row) == {i \in CirclesOf(row) : ~layer[i].exiting}

(* C30: after each render of a point layer every row that matches the
   filter and has finite coordinates is drawn as exactly one point, also
   when rows share an id, a country code or their rounded coordinates. *)
C30_OnePointPerRow ==
  joinLast = "render" =>
    \A j \in 1..Len(joinData) : Cardinality(CirclesOf(joinData[j])) = 1

(* what the joins do keep: after each render every matching row has exactly
   one circle that is not fading out, and no other row has one *)
JoinKeepsOneLiveCircle ==
  joinLast = "render" =>
    /\ \A j \in 1..Len(joinData) : Cardinality(LiveCirclesOf(joinData[j])) = 1
    /\ \A i \in 1..Len(layer) :
         ~layer[i].exiting => \E j \in 1..Len(joinData) : joinData[j] = layer[i].row

(* renderers without an exit transition keep one circle per matching row *)
JoinWithoutFadeKeepsOne ==
  (joinLast = "render" /\ renderer # "keyed") =>
    \A j \in 1..Len(joinData) : Cardinality(CirclesOf(joinData[j])) = 1

=============================================================================
